---- MODULE Spec2Model ----
(***************************************************************************)
(* Verification model of the action-potential analysis core:               *)
(*   src/src/analysis/action_potential.py   ActionPotentialProcessor       *)
(*   src/src/gui/app.py                     SignalAnalyzerApp (analysis)   *)
(*   src/src/utils/point_counter.py         CurvePointTracker              *)
(*   src/src/analysis/purple_integration_control.py                        *)
(*                                          PurpleIntegrationController    *)
(*   src/src/gui/action_potential_tab.py    ActionPotentialTab             *)
(*                                                                         *)
(* Sample values are abstracted: a trace is its length, its sampling rate  *)
(* and the troughs that meet the prominence threshold; a curve is the      *)
(* index window it is a view of.  Optional (None) values are records with  *)
(* a present flag so that every variable keeps one shape.                  *)
(***************************************************************************)
EXTENDS Integers, Sequences, FiniteSets, TLC

VARIABLES
    proc,        \* the ActionPotentialProcessor instance
    lastOp,      \* name of the operation that ran last
    lastExc,     \* exception the last operation let escape to its caller ("" = none)
    failStage,   \* stage of analyze() in which an exception was raised ("" = none)
    result,      \* value returned by the last analyze() call
    prevResult,  \* value returned by the analyze() call before it
    twice,       \* the last two operations were analyze() with identical trace and params
    yielded,     \* the windows appended by the last find_cycles run
    app,         \* SignalAnalyzerApp fields used by the analysis handler
    tracker,     \* CurvePointTracker fields
    ctl,         \* PurpleIntegrationController fields
    tab,         \* ActionPotentialTab / callback observations
    sel,         \* the drag-selection PurpleIntegrationController of point_counter.py
    lastParams,  \* keyword arguments of the last analyze() call
    filt,        \* arguments and outcome of the last combined_filter call
    fapps,       \* the two applications that filter a loaded signal
    fftCall,    \* arguments and outcome of the last apply_fft_filter call
    batch,      \* BatchProcessor fields and the position of its process_folder call
    learn,      \* ContinuousLearning fields, its monitoring threads and its caller
    eaCall       \* arguments and outcome of the last extract_add_filter call

vars == <<proc, lastOp, lastExc, failStage, result, prevResult, twice, yielded,
          app, tracker, ctl, tab, sel, lastParams, filt, fapps, fftCall, batch, learn, eaCall>>

\* the objects outside the analysis window
toolVars == <<fapps, fftCall, batch, learn, eaCall>>

\* the analysis window and the processor behind it
analysisVars == <<app, tracker, ctl, tab, sel, filt>>

procVars == <<proc, failStage, result, prevResult, twice, yielded, lastParams>>

-----------------------------------------------------------------------------
(* Bounds of the model *)

\* find_cycles appends for ever; the model stops a run that would exceed this
MaxCycleEntries == 2

-----------------------------------------------------------------------------
(* Program constants *)

BLUE_START == 28
BLUE_END == 828
MAGENTA_POINTS == 200
DEPOL_START == 828
DEPOL_END == 1028
HYPERPOL_START == 1028
HYPERPOL_END == 1227
PURPLE_MIN_LEN == 1227
LAST_POINT == -1

-----------------------------------------------------------------------------
(* Helpers *)

Min(a, b) == IF a < b THEN a ELSE b
Max(a, b) == IF a > b THEN a ELSE b

\* Python int(): truncation toward zero of num / den, den > 0
PyInt(num, den) == IF num >= 0 THEN num \div den ELSE -((-num) \div den)

\* Python a // 2 on a non-negative int
FloorHalf(a) == a \div 2

\* bounds of the view array[a:b] of an array of n samples, 0 <= a <= b
PySlice(n, a, b) ==
    LET lo == Min(a, n)
        hi == Max(lo, Min(b, n))
    IN  [lo |-> lo, hi |-> hi]

\* seq[:k] as Python slices it (negative k counts from the end)
PyPrefix(s, k) ==
    LET m == IF k >= 0 THEN Min(k, Len(s)) ELSE Max(0, Len(s) + k)
    IN  SubSeq(s, 1, m)

\* a curve is the view array[lo:hi] of the array it was sliced from
NoView == [present |-> FALSE, lo |-> 0, hi |-> 0]
View(lo, hi) == [present |-> TRUE, lo |-> lo, hi |-> hi]
ViewLen(v) == v.hi - v.lo

NoSlice == [present |-> FALSE, start |-> 0, end |-> 0]
SliceOf(a, b) == [present |-> TRUE, start |-> a, end |-> b]

-----------------------------------------------------------------------------
(* Traces: the inputs of set_data *)

TraceLens == {1, 1000, 2000}

\* sampling rate 1 / mean(diff(time)) of a uniformly sampled trace, in Hz
SampleRates == {1000}

\* troughs of the trace that meet prominence = std(trace): index and depth rank
TroughSets ==
    { {},
      { [idx |-> 300, depth |-> 2], [idx |-> 400, depth |-> 1] },
      { [idx |-> 300, depth |-> 1], [idx |-> 1200, depth |-> 3],
        [idx |-> 1500, depth |-> 2] } }

\* flat: the troughs are flat-bottomed (a clipped recording), so that the median
\* of the first 100 samples of every cycle equals the minimum of the cycles;
\* written: an element of the array has been assigned since it was supplied
NoTrace ==
    [present |-> FALSE, len |-> 0, sr |-> 0, troughs |-> {}, flat |-> FALSE,
     written |-> FALSE]

Traces ==
    { [present |-> TRUE, len |-> n, sr |-> r, troughs |-> ts, flat |-> FALSE,
       written |-> FALSE] :
        n \in TraceLens, r \in SampleRates, ts \in TroughSets }

\* clipped recordings: the same traces with flat-bottomed troughs
ClippedTraces ==
    { [tr EXCEPT !.flat = TRUE] : tr \in { t \in Traces : t.troughs # {} } }

\* traces around the length the purple windows need
CurveLens == {1, 1000, 1227, 1228, 2000}

CurveTraces ==
    { [present |-> TRUE, len |-> n, sr |-> r, troughs |-> {}, flat |-> FALSE,
       written |-> FALSE] :
        n \in CurveLens, r \in SampleRates }

\* a trough is an interior local minimum of the trace
ValidTrace(tr) == \A t \in tr.troughs : t.idx >= 1 /\ t.idx <= tr.len - 2

-----------------------------------------------------------------------------
(* ActionPotentialProcessor *)

DefaultParams ==
    [n_cycles |-> 2, t1 |-> 100, t2 |-> 100, V0 |-> -80, V1 |-> 100, V2 |-> 10,
     cell_area_cm2 |-> 1]

\* keyword arguments of analyze(**params): the keys a call supplies
ParamUpdates ==
    { [keys |-> {}, n_cycles |-> 0, t1 |-> 0],
      [keys |-> {"n_cycles"}, n_cycles |-> 1, t1 |-> 0],
      [keys |-> {"n_cycles"}, n_cycles |-> 2, t1 |-> 0],
      [keys |-> {"t1"}, n_cycles |-> 0, t1 |-> 0],
      [keys |-> {"t1"}, n_cycles |-> 0, t1 |-> 100],
      [keys |-> {"t1"}, n_cycles |-> 0, t1 |-> 1000] }

\* no analyze() call yet
NoParams == [keys |-> {}, n_cycles |-> 0, t1 |-> 0]

\* processed_data: the samples are those of the trace it was corrected from
NoProcessed ==
    [present |-> FALSE, len |-> 0, stage |-> "none", troughs |-> {}, flat |-> FALSE]

\* a number the processor stores: the 0 of __init__, or what np.trapz / np.mean
\* gave for the slice [start:end] it was computed over
InitialNumber == [kind |-> "initial", start |-> 0, end |-> 0]

\* a custom integration start: None, or a coordinate that is an int or a float
NoPoint == [present |-> FALSE, is_int |-> TRUE, v |-> 0]
PointAt(v, is_int) == [present |-> TRUE, is_int |-> is_int, v |-> v]

InitProcessor ==
    [data |-> NoTrace,
     supplied |-> NoTrace,
     params |-> DefaultParams,
     processed_data |-> NoProcessed,
     cycles |-> <<>>,
     cycle_times |-> <<>>,
     cycle_indices |-> <<>>,
     blue_curve |-> NoView,
     magenta_curve |-> NoView,
     purple_hyperpol_curve |-> NoView,
     purple_depol_curve |-> NoView,
     orange_curve |-> NoView,
     hyperpol_slice |-> NoSlice,
     depol_slice |-> NoSlice,
     integrals |-> [hyperpol |-> InitialNumber, depol |-> InitialNumber],
     averages |-> [hyperpol |-> InitialNumber, depol |-> InitialNumber],
     custom_integration_points |-> [hyperpol |-> NoPoint, depol |-> NoPoint],
     use_custom_points |-> FALSE]

\* outcome of a method: the instance afterwards and the exception it raised
Ok(p) == [p |-> p, exc |-> ""]
Raise(p, e) == [p |-> p, exc |-> e]

\* set_data(data, time_data): the instance keeps copies (np.array) of the
\* arrays; supplied is the caller's own array
set_data(p, tr) == [p EXCEPT !.data = tr, !.supplied = tr]

UpdateParams(params, upd) ==
    [params EXCEPT
        !.n_cycles = IF "n_cycles" \in upd.keys THEN upd.n_cycles ELSE @,
        !.t1 = IF "t1" \in upd.keys THEN upd.t1 ELSE @]

\* a baseline correction that subtracts in the supplied array itself
baseline_correction_InPlace(p) ==
    IF ~p.data.present
    THEN Raise(p, "TypeError")
    ELSE Ok([p EXCEPT !.data = [@ EXCEPT !.written = TRUE],
                      !.processed_data =
                [present |-> TRUE, len |-> p.data.len, stage |-> "corrected",
                 troughs |-> p.data.troughs, flat |-> p.data.flat]])

\* baseline_correction(): processed_data is a new array, data minus its median
baseline_correction(p) ==
    IF ~p.data.present
    THEN Raise(p, "TypeError")
    ELSE Ok([p EXCEPT !.processed_data =
                [present |-> TRUE, len |-> p.data.len, stage |-> "corrected",
                 troughs |-> p.data.troughs, flat |-> p.data.flat]])

\* scipy.signal.find_peaks(..., distance=d) on the troughs: the deepest trough
\* is kept and every trough closer than d to a kept one is dropped
RECURSIVE SelectByDistance(_, _)
SelectByDistance(cands, d) ==
    IF cands = {}
    THEN {}
    ELSE LET best == CHOOSE c \in cands : \A o \in cands : o.depth <= c.depth
             far == { c \in cands \ {best} :
                        c.idx - best.idx >= d \/ best.idx - c.idx >= d }
         IN  {best.idx} \cup SelectByDistance(far, d)

RECURSIVE SortedSeq(_)
SortedSeq(S) ==
    IF S = {}
    THEN <<>>
    ELSE LET m == CHOOSE x \in S : \A y \in S : x <= y
         IN  <<m>> \o SortedSeq(S \ {m})

find_peaks(troughs, d) == SortedSeq(SelectByDistance(troughs, d))

t1_samples(p) == PyInt(p.params.t1 * p.data.sr, 1000)

\* the (start, end) window find_cycles builds around one peak
CycleWindow(p, peak) ==
    <<Max(0, peak - FloorHalf(t1_samples(p))),
      Min(p.processed_data.len, peak + t1_samples(p) * 2)>>

RECURSIVE MapWindows(_, _)
MapWindows(p, peaks) ==
    IF peaks = <<>>
    THEN <<>>
    ELSE <<CycleWindow(p, Head(peaks))>> \o MapWindows(p, Tail(peaks))

\* the windows of the first n_cycles peaks
CycleWindows(p) ==
    MapWindows(p, PyPrefix(find_peaks(p.processed_data.troughs, t1_samples(p)),
                           p.params.n_cycles))

\* time_data[start] fails for a window that starts beyond the time array; the
\* loop has appended the windows before it by then
RECURSIVE Indexable(_, _)
Indexable(ws, n) ==
    IF ws = <<>> \/ Head(ws)[1] >= n
    THEN <<>>
    ELSE <<Head(ws)>> \o Indexable(Tail(ws), n)

\* the windows one find_cycles run appends
CyclesFound(p) == Indexable(CycleWindows(p), p.data.len)

WindowViews(ws, n) ==
    [i \in 1..Len(ws) |->
        LET s == PySlice(n, ws[i][1], ws[i][2]) IN View(s.lo, s.hi)]

find_cycles(p) ==
    IF ~p.data.present THEN Raise(p, "ValueError")
    ELSE IF p.data.len <= 1 THEN Raise(p, "ValueError")      \* int(nan)
    ELSE IF ~p.processed_data.present THEN Raise(p, "TypeError")
    ELSE IF t1_samples(p) < 1 THEN Raise(p, "ValueError")    \* distance < 1
    ELSE LET ws == CyclesFound(p)
             q == [p EXCEPT
                    !.cycles = @ \o WindowViews(ws, p.processed_data.len),
                    !.cycle_times = @ \o WindowViews(ws, p.data.len),
                    !.cycle_indices = @ \o ws]
         IN  IF Len(ws) < Len(CycleWindows(p)) THEN Raise(q, "IndexError") ELSE Ok(q)

\* cycles[i] = processed_data[start:end] for every stored index pair
Reslice(idxs, n) == WindowViews(idxs, n)

\* normalize_signal once cycles exist: the scale factor is
\* abs(V1 - V0) / abs(min_val - baseline), a numpy division that yields inf
\* (with a RuntimeWarning) when min_val equals baseline; the rescaled trace then
\* holds inf and nan, in which find_peaks detects nothing
Rescale(p) ==
    IF \E i \in 1..Len(p.cycles) : ViewLen(p.cycles[i]) = 0
    THEN Raise(p, "ValueError")                              \* np.min of an empty cycle
    ELSE IF p.processed_data.flat \/ p.processed_data.stage = "nonfinite"
    THEN Ok([p EXCEPT
                !.processed_data = [@ EXCEPT !.stage = "nonfinite", !.troughs = {}],
                !.cycles = Reslice(p.cycle_indices, p.processed_data.len)])
    ELSE Ok([p EXCEPT
                !.processed_data = [@ EXCEPT !.stage = "normalized"],
                !.cycles = Reslice(p.cycle_indices, p.processed_data.len)])

\* a normalization that does not test for an empty cycle list: min() of an
\* empty sequence raises
normalize_signal_Unguarded(p) ==
    IF p.cycles = <<>> THEN Raise(p, "ValueError") ELSE Rescale(p)

\* normalize_signal()
normalize_signal(p) ==
    IF p.cycles = <<>> THEN Ok(p) ELSE Rescale(p)

calculate_blue_curve(p) ==
    IF p.processed_data.present
    THEN LET s == PySlice(p.processed_data.len, BLUE_START, BLUE_END)
         IN  [p EXCEPT !.blue_curve = View(s.lo, s.hi)]
    ELSE p

\* the scalar mean of blue_curve[:200], kept as the window it averages
calculate_magenta_curve(p) ==
    IF p.blue_curve.present
    THEN LET s == PySlice(ViewLen(p.blue_curve), 0, MAGENTA_POINTS)
         IN  [p EXCEPT !.magenta_curve =
                View(p.blue_curve.lo + s.lo, p.blue_curve.lo + s.hi)]
    ELSE p

\* the length test taken as "at least 1227 samples"
calculate_purple_curves_AtLeast(p) ==
    IF p.processed_data.present /\ p.processed_data.len >= PURPLE_MIN_LEN
    THEN [p EXCEPT
            !.depol_slice = SliceOf(DEPOL_START, DEPOL_END),
            !.hyperpol_slice = SliceOf(HYPERPOL_START, HYPERPOL_END),
            !.purple_hyperpol_curve =
                LET s == PySlice(p.processed_data.len, HYPERPOL_START, HYPERPOL_END)
                IN  View(s.lo, s.hi),
            !.purple_depol_curve =
                LET s == PySlice(p.processed_data.len, DEPOL_START, DEPOL_END)
                IN  View(s.lo, s.hi)]
    ELSE [p EXCEPT
            !.purple_hyperpol_curve = NoView,
            !.purple_depol_curve = NoView,
            !.hyperpol_slice = NoSlice,
            !.depol_slice = NoSlice]

calculate_purple_curves(p) ==
    IF p.processed_data.present /\ p.processed_data.len > PURPLE_MIN_LEN
    THEN [p EXCEPT
            !.depol_slice = SliceOf(DEPOL_START, DEPOL_END),
            !.hyperpol_slice = SliceOf(HYPERPOL_START, HYPERPOL_END),
            !.purple_hyperpol_curve =
                LET s == PySlice(p.processed_data.len, HYPERPOL_START, HYPERPOL_END)
                IN  View(s.lo, s.hi),
            !.purple_depol_curve =
                LET s == PySlice(p.processed_data.len, DEPOL_START, DEPOL_END)
                IN  View(s.lo, s.hi)]
    ELSE [p EXCEPT
            !.purple_hyperpol_curve = NoView,
            !.purple_depol_curve = NoView,
            !.hyperpol_slice = NoSlice,
            !.depol_slice = NoSlice]

\* analyze() calls this method, which the class does not define; where the
\* method is supplied it makes orange the entire processed trace
calculate_orange_curve_logic(p, defined) ==
    IF ~defined
    THEN Raise(p, "AttributeError")
    ELSE Ok([p EXCEPT !.orange_curve = View(0, p.processed_data.len)])

\* an integral that does not test for an empty cycle list and formats the
\* mean of no integrals
calculate_integral_Unguarded(p) ==
    IF \E i \in 1..Len(p.cycles) :
                \/ ViewLen(p.cycles[i]) # ViewLen(p.cycle_times[i])
                \/ ViewLen(p.cycles[i]) = 0
    THEN [kind |-> "Error", cycle_indices |-> <<>>]
    ELSE [kind |-> "value", cycle_indices |-> p.cycle_indices]

\* the dictionary calculate_integral returns; its own failures become a dictionary too
calculate_integral(p) ==
    IF p.cycles = <<>>
    THEN [kind |-> "No cycles found", cycle_indices |-> <<>>]
    ELSE IF \E i \in 1..Len(p.cycles) :
                \/ ViewLen(p.cycles[i]) # ViewLen(p.cycle_times[i])
                \/ ViewLen(p.cycles[i]) = 0
    THEN [kind |-> "Error", cycle_indices |-> <<>>]
    ELSE [kind |-> "value", cycle_indices |-> p.cycle_indices]

\* len() of the scalar magenta_curve raises
log_curve_details(p) ==
    IF p.magenta_curve.present THEN Raise(p, "TypeError") ELSE Ok(p)

NoInfo == [kind |-> "none", cycle_indices |-> <<>>]

NoneResult ==
    [isNone |-> TRUE, orange |-> NoView, blue |-> NoView, magenta |-> NoView,
     purple_hyperpol |-> NoView, purple_depol |-> NoView,
     time |-> NoTrace, processed |-> NoProcessed, integral_info |-> NoInfo]

\* neither None nor the dictionary analyze() returns names a failed stage
FailureMark(r) == ""

ResultOf(p, info) ==
    [isNone |-> FALSE, orange |-> p.orange_curve, blue |-> p.blue_curve,
     magenta |-> p.magenta_curve, purple_hyperpol |-> p.purple_hyperpol_curve,
     purple_depol |-> p.purple_depol_curve, time |-> p.data,
     processed |-> p.processed_data, integral_info |-> info]

\* a handler that hands back what had been computed when the stage failed
AnalyzeErrorResultPartial(p) == ResultOf(p, calculate_integral(p))

\* the except branch of analyze(): log and return None
AnalyzeErrorResult(p) == NoneResult

Failed(p, stage) == [p |-> p, result |-> AnalyzeErrorResult(p), failStage |-> stage]

\* analyze(**params): the instance afterwards, the value returned and the
\* stage whose exception the except branch caught
analyze(p0, upd, orangeDefined) ==
    LET p1 == [p0 EXCEPT !.params = UpdateParams(@, upd)]
        s1 == baseline_correction(p1)
    IN  IF s1.exc # "" THEN Failed(s1.p, "baseline_correction")
        ELSE LET s2 == find_cycles(s1.p)
        IN  IF s2.exc # "" THEN Failed(s2.p, "find_cycles")
        ELSE LET s3 == normalize_signal(s2.p)
        IN  IF s3.exc # "" THEN Failed(s3.p, "normalize_signal")
        ELSE IF ~s3.p.processed_data.present THEN Failed(s3.p, "processed_data check")
        ELSE LET s4 == calculate_orange_curve_logic(s3.p, orangeDefined)
        IN  IF s4.exc # "" THEN Failed(s4.p, "derived curves")
        ELSE LET p5 == calculate_purple_curves(
                            calculate_magenta_curve(calculate_blue_curve(s4.p)))
                 info == calculate_integral(p5)
                 s6 == log_curve_details(p5)
        IN  IF s6.exc # "" THEN Failed(s6.p, "log_curve_details")
            ELSE [p |-> s6.p, result |-> ResultOf(s6.p, info), failStage |-> ""]

-----------------------------------------------------------------------------
(* Operations on the processor instance *)

Observe(op, exc) ==
    /\ lastOp' = op
    /\ lastExc' = exc

SetData(tr) ==
    /\ tr.present
    /\ ValidTrace(tr)
    /\ proc' = set_data(proc, tr)
    /\ Observe("set_data", "")
    /\ twice' = FALSE
    /\ UNCHANGED <<failStage, result, prevResult, lastParams, yielded, app, tracker, ctl, tab, sel, filt, toolVars>>

\* a direct call of a method that may raise to its caller
Direct(op, out) ==
    /\ proc' = out.p
    /\ Observe(op, out.exc)
    /\ twice' = FALSE
    /\ UNCHANGED <<failStage, result, prevResult, lastParams, app, tracker, ctl, tab, sel, filt, toolVars>>

CycleRoom(p) ==
    p.data.present /\ p.processed_data.present /\ p.data.len > 1 /\ t1_samples(p) >= 1
        => Len(p.cycle_indices) + Len(CyclesFound(p)) <= MaxCycleEntries

BaselineCorrection ==
    /\ Direct("baseline_correction", baseline_correction(proc))
    /\ UNCHANGED yielded

FindCycles ==
    /\ CycleRoom(proc)
    /\ LET out == find_cycles(proc)
       IN  /\ Direct("find_cycles", out)
           /\ yielded' = IF out.exc \in {"", "IndexError"} THEN CyclesFound(proc) ELSE <<>>

NormalizeSignal ==
    /\ Direct("normalize_signal", normalize_signal(proc))
    /\ UNCHANGED yielded

CalculateBlueCurve ==
    /\ Direct("calculate_blue_curve", Ok(calculate_blue_curve(proc)))
    /\ UNCHANGED yielded

CalculateMagentaCurve ==
    /\ Direct("calculate_magenta_curve", Ok(calculate_magenta_curve(proc)))
    /\ UNCHANGED yielded

CalculatePurpleCurves ==
    /\ Direct("calculate_purple_curves", Ok(calculate_purple_curves(proc)))
    /\ UNCHANGED yielded

\* analyze(**params); noted says whether the observer keeps the keyword
\* arguments of the call
AnalyzeCall(upd, orangeDefined, noted) ==
    LET p1 == [proc EXCEPT !.params = UpdateParams(@, upd)]
        pb == baseline_correction(p1)
        out == analyze(proc, upd, orangeDefined)
        ran == pb.exc = "" /\ find_cycles(pb.p).exc = ""
    IN  /\ pb.exc = "" => CycleRoom(pb.p)
        /\ proc' = out.p
        /\ Observe("analyze", "")
        /\ failStage' = out.failStage
        /\ result' = out.result
        /\ prevResult' = result
        /\ lastParams' = IF noted THEN upd ELSE lastParams
        /\ twice' = (lastOp = "analyze" /\ p1.params = proc.params)
        /\ yielded' = IF ran THEN CyclesFound(pb.p) ELSE <<>>
        /\ UNCHANGED <<app, tracker, ctl, tab, sel, filt, toolVars>>

Analyze(upd, orangeDefined) == AnalyzeCall(upd, orangeDefined, FALSE)

AnalyzeKeywords(upd, orangeDefined) == AnalyzeCall(upd, orangeDefined, TRUE)

-----------------------------------------------------------------------------
(* SignalAnalyzerApp and its CurvePointTracker *)

\* CurvePointTracker.__init__: the pairs the tracker keeps to map window
\* indices back to trace indices
InitTracker ==
    [processor |-> FALSE,
     hyperpol_slice |-> SliceOf(1028, 1227),
     depol_slice |-> SliceOf(828, 1028)]

\* SignalAnalyzerApp.__init__; derived_* remember the pairs the processor held
\* when apply_average_to_peaks returned
InitApp ==
    [filtered_data |-> NoTrace,
     has_processor |-> FALSE,
     processed |-> FALSE,
     reached |-> "",
     derived_hyperpol |-> NoSlice,
     derived_depol |-> NoSlice]

\* the pairs on_action_potential_analysis stores on the processor
APP_HYPERPOL_SLICE == SliceOf(1035, 1235)
APP_DEPOL_SLICE == SliceOf(835, 1035)

\* ActionPotentialProcessor(filtered_data, time_data, params) as the handler calls it
NewProcessor(tr, upd) ==
    [InitProcessor EXCEPT !.data = tr, !.params = UpdateParams(DefaultParams, upd)]

\* process_signal(): the pipeline that leaves processed_data and the derived
\* curves on the instance; outcome "none" is the pipeline reporting a failure
process_signal(p, outcome) ==
    IF outcome = "raise" THEN Raise(p, "AttributeError")
    ELSE IF outcome = "none" THEN Ok(p)
    ELSE LET b == baseline_correction(p)
         IN  IF b.exc # "" THEN b
             ELSE Ok(calculate_purple_curves(
                        calculate_magenta_curve(calculate_blue_curve(b.p))))

\* on_action_potential_analysis(params): the application and its processor
\* afterwards and the exception that left the handler, if one did
on_action_potential_analysis(a, p, upd, visibility_update, ctor, sig, peaks) ==
    IF visibility_update
    THEN [app |-> [a EXCEPT !.reached = "visibility_update"], p |-> p,
          exc |-> IF a.processed THEN "TypeError" ELSE ""]
    ELSE IF ~a.filtered_data.present
    THEN [app |-> [a EXCEPT !.reached = "no filtered data"], p |-> p, exc |-> ""]
    ELSE IF ~ctor
    THEN [app |-> [a EXCEPT !.reached = "constructor raised"], p |-> p, exc |-> ""]
    ELSE LET p0 == NewProcessor(a.filtered_data, upd)
             s == process_signal(p0, sig)
             a1 == [a EXCEPT !.has_processor = TRUE]
         IN  IF s.exc # ""
             THEN [app |-> [a1 EXCEPT !.reached = "process_signal raised"],
                   p |-> s.p, exc |-> ""]
             ELSE IF ~s.p.processed_data.present
             THEN [app |-> [a1 EXCEPT !.reached = "pipeline failure"],
                   p |-> s.p, exc |-> ""]
             ELSE [app |-> [a1 EXCEPT
                              !.processed = TRUE,
                              !.derived_hyperpol = s.p.hyperpol_slice,
                              !.derived_depol = s.p.depol_slice,
                              !.reached = IF peaks THEN "update_plot raised"
                                          ELSE "purple curves missing"],
                   p |-> [s.p EXCEPT !.hyperpol_slice = APP_HYPERPOL_SLICE,
                                     !.depol_slice = APP_DEPOL_SLICE],
                   exc |-> ""]

\* update_point_tracking(): the tracker is handed the processor; its own
\* slice attributes exist since __init__ and are left as they are
update_point_tracking(a, t) ==
    IF ~a.has_processor THEN t ELSE [t EXCEPT !.processor = TRUE]

LoadData(tr) ==
    /\ app' = [app EXCEPT !.filtered_data = tr, !.has_processor = FALSE]
    /\ Observe("load_data", "")
    /\ UNCHANGED <<proc, failStage, result, prevResult, lastParams, twice, yielded, tracker, ctl, tab, sel, filt, toolVars>>

OnActionPotentialAnalysis(upd, visibility_update, ctor, sig, peaks) ==
    LET out == on_action_potential_analysis(app, proc, upd, visibility_update,
                                            ctor, sig, peaks)
    IN  /\ app' = out.app
        /\ proc' = out.p
        /\ Observe("on_action_potential_analysis", out.exc)
        /\ UNCHANGED <<failStage, result, prevResult, lastParams, twice, yielded, tracker, ctl, tab, sel, filt, toolVars>>

UpdatePointTracking ==
    /\ tracker' = update_point_tracking(app, tracker)
    /\ Observe("update_point_tracking", "")
    /\ UNCHANGED <<proc, failStage, result, prevResult, lastParams, twice, yielded, app, ctl, tab, sel, filt, toolVars>>

-----------------------------------------------------------------------------
(* PurpleIntegrationController: state and drawing *)

CurveTypes == {"hyperpol", "depol"}
PointTypes == {"start", "end"}

\* a sample array by its length; None or a missing attribute is not present
NoSamples == [present |-> FALSE, len |-> 0]
Samples(n) == [present |-> TRUE, len |-> n]

NoTime == [present |-> FALSE, len |-> 0, ndarray |-> FALSE]
TimeOf(n, nd) == [present |-> TRUE, len |-> n, ndarray |-> nd]

\* the attributes of a processor the controller reads
NoCtlProcessor ==
    [present |-> FALSE, modified_hyperpol |-> NoSamples,
     modified_depol |-> NoSamples, time |-> NoTime]

CtlProcessor(h, d, t) ==
    [present |-> TRUE, modified_hyperpol |-> h, modified_depol |-> d, time |-> t]

\* the processors handed to set_processor: the time vector, where there is
\* one, covers the purple windows
CtlProcessors ==
    { CtlProcessor(Samples(200), Samples(200), TimeOf(200, FALSE)),
      CtlProcessor(Samples(200), Samples(200), TimeOf(200, TRUE)),
      CtlProcessor(Samples(199), Samples(200), TimeOf(2000, FALSE)),
      CtlProcessor(Samples(1), NoSamples, NoTime) }

\* values typed into a spinbox
PointInputs == {-5, -1, 100, 10000}

\* a marker: whether it exists, whether it is shown, and the index it is shown at
NoMarker == [created |-> FALSE, visible |-> FALSE, idx |-> 0]
Hidden(m) == [m EXCEPT !.visible = FALSE, !.idx = 0]
NoPatch == [present |-> FALSE, start |-> 0, end |-> 0]
NoEffective ==
    [present |-> FALSE,
     idx |-> [c \in CurveTypes |-> [start |-> 0, end |-> 0]]]

\* PurpleIntegrationController.__init__ and _create_ui_controls; returned is what
\* the last operation returned when it was get_effective_integration_indices,
\* notified whether the last operation called update_callback
InitCtl ==
    [processor |-> NoCtlProcessor,
     integration_points |-> [c \in CurveTypes |-> [start |-> 0, end |-> LAST_POINT]],
     markers |-> [c \in CurveTypes |-> [start |-> NoMarker, end |-> NoMarker]],
     integration_patches |-> [c \in CurveTypes |-> NoPatch],
     time_display |-> [c \in CurveTypes |-> [start |-> "value", end |-> "Vege"]],
     is_active |-> FALSE,
     custom_points_enabled |-> FALSE,
     controls_enabled |-> TRUE,
     returned |-> NoEffective,
     notified |-> FALSE]

CurveData(k, c) ==
    IF c = "hyperpol" THEN k.processor.modified_hyperpol
    ELSE k.processor.modified_depol

RemovePatch(k, c) == [k EXCEPT !.integration_patches[c] = NoPatch]

\* _update_integration_patch(curve_type): the shaded area from the start index
\* to the resolved end index, or no area
_update_integration_patch(k, c) ==
    IF ~k.custom_points_enabled \/ ~k.processor.present \/ ~k.is_active
    THEN RemovePatch(k, c)
    ELSE LET cd == CurveData(k, c)
             td == k.processor.time
         IN  IF ~cd.present \/ ~td.present \/ cd.len < 2
             THEN RemovePatch(k, c)
             ELSE LET max_idx == cd.len - 1
                      start_idx == Max(0, k.integration_points[c].start)
                      end_idx_stored == k.integration_points[c].end
                      actual_end_idx ==
                          Min(max_idx, IF end_idx_stored # LAST_POINT
                                       THEN end_idx_stored ELSE max_idx)
                      time_slice == PySlice(td.len, start_idx, actual_end_idx + 1)
                  IN  IF start_idx > actual_end_idx
                      THEN RemovePatch(k, c)
                      ELSE IF time_slice.hi - time_slice.lo < 2
                      THEN RemovePatch(k, c)
                      ELSE [k EXCEPT !.integration_patches[c] =
                                [present |-> TRUE, start |-> start_idx,
                                 end |-> actual_end_idx]]

\* _add_integration_markers(): create or show the four markers, refresh both areas
_add_integration_markers(k) ==
    IF ~k.processor.present \/ ~k.is_active THEN k
    ELSE _update_integration_patch(
            _update_integration_patch(
                [k EXCEPT !.markers =
                    [c \in CurveTypes |->
                        [pt \in PointTypes |->
                            [k.markers[c][pt] EXCEPT
                                !.created = TRUE, !.visible = TRUE]]]],
                "hyperpol"),
            "depol")

\* _remove_integration_markers(): hide the markers, remove the areas
_remove_integration_markers(k) ==
    [k EXCEPT
        !.integration_patches = [c \in CurveTypes |-> NoPatch],
        !.markers = [c \in CurveTypes |->
                        [pt \in PointTypes |->
                            Hidden(k.markers[c][pt])]]]

\* the index _update_marker shows a point at: the end sentinel is the last index
\* of the curve
MarkerIndex(k, c, pt) ==
    IF pt = "end" /\ k.integration_points[c][pt] = LAST_POINT
    THEN CurveData(k, c).len - 1
    ELSE k.integration_points[c][pt]

\* _update_marker once the marker exists: hide it when the curve and the time
\* vector are missing or differ in length or the index is outside the curve,
\* place it otherwise; then refresh the area
PlaceMarker(k, c, pt) ==
    _update_integration_patch(
        IF \/ ~CurveData(k, c).present
           \/ ~k.processor.time.present
           \/ CurveData(k, c).len # k.processor.time.len
        THEN [k EXCEPT !.markers[c][pt] = Hidden(@)]
        ELSE IF 0 <= MarkerIndex(k, c, pt)
                /\ MarkerIndex(k, c, pt) <= CurveData(k, c).len - 1
        THEN [k EXCEPT !.markers[c][pt] =
                [created |-> TRUE, visible |-> TRUE, idx |-> MarkerIndex(k, c, pt)]]
        ELSE [k EXCEPT !.markers[c][pt] = Hidden(@)],
        c)

\* _update_marker(curve_type, point_type)
_update_marker(k, c, pt) ==
    IF ~k.custom_points_enabled \/ ~k.processor.present \/ ~k.is_active
    THEN _update_integration_patch(k, c)
    ELSE PlaceMarker(IF ~k.markers[c][pt].created
                     THEN _add_integration_markers(k) ELSE k, c, pt)

UpdateAllMarkers(k) ==
    _update_marker(_update_marker(_update_marker(_update_marker(
        k, "hyperpol", "start"), "hyperpol", "end"), "depol", "start"), "depol", "end")

\* _update_time_display(curve_type, point_type): the text beside the spinbox
_update_time_display(k, c, pt) ==
    LET idx_stored == k.integration_points[c][pt]
        td == k.processor.time
        time_str ==
            IF ~(k.processor.present /\ td.present) THEN "N/A"
            ELSE IF pt = "end" /\ idx_stored = LAST_POINT THEN "Vege"
            ELSE IF 0 <= idx_stored /\ idx_stored <= td.len - 1 THEN "value"
            ELSE "Erv?"
    IN  [k EXCEPT !.time_display[c][pt] = time_str]

\* _enable_controls(enabled): the state of the spinboxes and buttons
_enable_controls(k, enabled) == [k EXCEPT !.controls_enabled = enabled]

-----------------------------------------------------------------------------
(* PurpleIntegrationController: operations, and the tab they report to *)

\* get_integration_data(): a copy of the stored indices, the end sentinel unresolved;
\* the dictionary has no 'enabled' and no 'points' key
get_integration_data(k) ==
    [has_enabled |-> FALSE, enabled |-> FALSE, has_points |-> FALSE,
     points |-> [c \in CurveTypes |-> 0],
     integration_points |-> k.integration_points]

\* what an operation leaves: the controller and the update_callback calls it made
Quiet(k) == [k |-> k, calls |-> <<>>]
Notify(k, apply) ==
    [k |-> k, calls |-> << [data |-> get_integration_data(k), apply |-> apply] >>]
AndNotify(r, apply) == [k |-> r.k, calls |-> r.calls \o Notify(r.k, apply).calls]
Join(r, r2) == [k |-> r2.k, calls |-> r.calls \o r2.calls]

\* `if self.update_callback and self.custom_points_enabled: self.update_callback(...)`
NotifyIfEnabled(k, apply) ==
    IF k.custom_points_enabled THEN Notify(k, apply) ELSE Quiet(k)

\* the index stored as it was typed, with no validation
validated_point_idx_AsTyped(k, c, pt, new_point_idx, max_point_idx) == new_point_idx

\* the validation in _update_integration_point: the end is kept as the sentinel
\* or held in [start, max]; the start is held in [0, effective end]
validated_point_idx(k, c, pt, new_point_idx, max_point_idx) ==
    IF pt = "end"
    THEN IF new_point_idx = LAST_POINT
         THEN LAST_POINT
         ELSE Min(Max(k.integration_points[c].start, new_point_idx), max_point_idx)
    ELSE Min(Max(0, new_point_idx),
             IF k.integration_points[c].end # LAST_POINT
             THEN k.integration_points[c].end ELSE max_point_idx)

_update_integration_point(k, c, pt, new_point_idx) ==
    IF ~k.processor.present \/ ~CurveData(k, c).present \/ CurveData(k, c).len = 0
    THEN Quiet(k)
    ELSE NotifyIfEnabled(
            _update_time_display(
                _update_marker(
                    [k EXCEPT !.integration_points[c][pt] =
                        validated_point_idx(k, c, pt, new_point_idx,
                                            CurveData(k, c).len - 1)],
                    c, pt),
                c, pt),
            FALSE)

\* `if self.custom_points_enabled: self._update_marker(...)`
MarkerIfEnabled(k, c, pt) ==
    IF k.custom_points_enabled THEN _update_marker(k, c, pt) ELSE k

_reset_integration_point(k, c, pt) ==
    NotifyIfEnabled(
        _update_time_display(
            MarkerIfEnabled(
                [k EXCEPT !.integration_points[c][pt] =
                    IF pt = "start" THEN 0 ELSE LAST_POINT],
                c, pt),
            c, pt),
        FALSE)

ResetNext(r, c, pt) == Join(r, _reset_integration_point(r.k, c, pt))

FinishReset(r, apply_callback) ==
    IF apply_callback /\ r.k.custom_points_enabled THEN AndNotify(r, FALSE) ELSE r

_reset_all_integration_points(k, apply_callback) ==
    FinishReset(
        ResetNext(ResetNext(ResetNext(ResetNext(Quiet(k),
            "hyperpol", "start"), "hyperpol", "end"), "depol", "start"), "depol", "end"),
        apply_callback)

_apply_integration_points(k) == NotifyIfEnabled(k, TRUE)

\* _toggle_custom_points() after the flag and the controls are set
ToggleMarkers(k, enabled) ==
    IF ~k.processor.present THEN Quiet(k)
    ELSE AndNotify(IF enabled
                   THEN Quiet(UpdateAllMarkers(_add_integration_markers(k)))
                   ELSE _reset_all_integration_points(
                            _remove_integration_markers(k), FALSE),
                   FALSE)

\* _toggle_custom_points(): enabled is the value of the check box
_toggle_custom_points(k, enabled) ==
    ToggleMarkers(_enable_controls([k EXCEPT !.custom_points_enabled = enabled],
                                   enabled),
                  enabled)

\* set_processor with a time vector: the markers are redrawn when custom points are on
MarkersIfEnabled(r) ==
    IF r.k.custom_points_enabled
    THEN [k |-> UpdateAllMarkers(_add_integration_markers(r.k)), calls |-> r.calls]
    ELSE r

\* set_processor without a time vector: custom points are switched off
DisableCustomPoints(k) ==
    IF k.custom_points_enabled
    THEN _toggle_custom_points(k, FALSE)
    ELSE Quiet(_enable_controls(k, FALSE))

set_processor(k, processor) ==
    IF processor.present /\ processor.time.present /\ processor.time.len > 0
    THEN MarkersIfEnabled(
            _reset_all_integration_points([k EXCEPT !.processor = processor], FALSE))
    ELSE DisableCustomPoints([k EXCEPT !.processor = processor])

ShowMarkers(k) ==
    IF k.custom_points_enabled
    THEN UpdateAllMarkers(_add_integration_markers(k))
    ELSE k

show(k) ==
    IF k.is_active THEN k ELSE ShowMarkers([k EXCEPT !.is_active = TRUE])

hide(k) ==
    IF ~k.is_active THEN k
    ELSE _remove_integration_markers([k EXCEPT !.is_active = FALSE])

\* get_effective_integration_indices(): the indices with the sentinel resolved
\* against processor.time; truthy is the truth value of a one-element array
get_effective_integration_indices(k, truthy) ==
    LET td == k.processor.time
        max_idx == td.len - 1
        effective(c) ==
            LET effective_end ==
                    Min(max_idx, IF k.integration_points[c].end # LAST_POINT
                                 THEN k.integration_points[c].end ELSE max_idx)
            IN  [start |-> Min(Max(0, k.integration_points[c].start), effective_end),
                 end |-> effective_end]
    IN  IF ~k.processor.present \/ ~td.present \/ td.len = 0
        THEN [exc |-> "", value |-> NoEffective]
        ELSE IF td.ndarray /\ td.len > 1
        THEN [exc |-> "ValueError", value |-> NoEffective]
        ELSE IF td.ndarray /\ ~truthy
        THEN [exc |-> "", value |-> NoEffective]
        ELSE [exc |-> "",
              value |-> [present |-> TRUE, idx |-> [c \in CurveTypes |-> effective(c)]]]

\* an integral by the index range it is taken over
ZeroIntegral == [kind |-> "zero", start |-> 0, end |-> 0]
Trapz(a, b) == [kind |-> "trapz", start |-> a, end |-> b]

NoIntegrals ==
    [present |-> FALSE, hyperpol_integral |-> ZeroIntegral,
     depol_integral |-> ZeroIntegral, custom_start_points |-> FALSE]

Range(a, b) == [start |-> a, end |-> b]

\* the ranges the range manager's sliders hold
RangeSets ==
    { [hyperpol |-> Range(10, 150), depol |-> Range(0, 100)] }

\* the tab as built: no range_selection_manager attribute, and the integrals of
\* the processor it applies results to
InitTab ==
    [range_selection_manager |-> FALSE,
     ranges |-> [hyperpol |-> Range(0, 200), depol |-> Range(0, 200)],
     current_integrals |-> NoIntegrals,
     processor_integrals |-> [hyperpol |-> ZeroIntegral, depol |-> ZeroIntegral]]

\* np.trapz over curve[start:end] when both indices are inside the curve
range_integral(samples, start, end) ==
    IF samples.present /\ start < samples.len /\ end <= samples.len
    THEN LET sl == PySlice(samples.len, start, end)
         IN  IF sl.hi - sl.lo > 1 THEN Trapz(start, end) ELSE ZeroIntegral
    ELSE ZeroIntegral

\* calculate_range_integral_with_custom_start(custom_start_points) on the range
\* manager: the integrals over the manager's own ranges, the start moved only by
\* a dictionary that carries 'enabled' and 'points'
calculate_range_integral_with_custom_start(t, processor, custom_start_points) ==
    IF ~processor.present THEN t
    ELSE LET using_custom_points ==
                 /\ custom_start_points.has_enabled
                 /\ custom_start_points.enabled
                 /\ custom_start_points.has_points
             StartOf(c) ==
                 LET custom == custom_start_points.points[c]
                 IN  IF using_custom_points /\ custom > t.ranges[c].start
                                            /\ custom < t.ranges[c].end
                     THEN custom ELSE t.ranges[c].start
         IN  [t EXCEPT !.current_integrals =
                [present |-> TRUE,
                 hyperpol_integral |->
                     range_integral(processor.modified_hyperpol,
                                    StartOf("hyperpol"), t.ranges.hyperpol.end),
                 depol_integral |->
                     range_integral(processor.modified_depol,
                                    StartOf("depol"), t.ranges.depol.end),
                 custom_start_points |-> using_custom_points]]

\* on_integration_point_change with apply: the processor's integrals take the
\* manager's current integrals
ApplyIntegrals(t, processor, apply) ==
    IF apply /\ processor.present /\ t.current_integrals.present
    THEN [t EXCEPT !.processor_integrals =
            [hyperpol |-> t.current_integrals.hyperpol_integral,
             depol |-> t.current_integrals.depol_integral]]
    ELSE t

\* ActionPotentialTab.on_integration_point_change(integration_data, apply)
on_integration_point_change(t, processor, integration_data, apply) ==
    IF ~t.range_selection_manager THEN t
    ELSE ApplyIntegrals(
            calculate_range_integral_with_custom_start(t, processor, integration_data),
            processor, apply)

\* the update_callback calls of one operation, in the order they were made
RECURSIVE Deliver(_, _, _)
Deliver(t, processor, calls) ==
    IF calls = <<>> THEN t
    ELSE Deliver(on_integration_point_change(t, processor, Head(calls).data,
                                             Head(calls).apply),
                 processor, Tail(calls))

CtlStep(op, r) ==
    /\ ctl' = [r.k EXCEPT !.notified = (r.calls # <<>>), !.returned = NoEffective]
    /\ tab' = Deliver(tab, r.k.processor, r.calls)
    /\ Observe(op, "")
    /\ UNCHANGED <<procVars, app, tracker, sel, filt, toolVars>>

SetProcessor(processor) ==
    CtlStep("set_processor", set_processor(ctl, processor))

ToggleCustomPoints(enabled) ==
    CtlStep("_toggle_custom_points", _toggle_custom_points(ctl, enabled))

UpdateIntegrationPoint(c, pt, new_point_idx) ==
    CtlStep("_update_integration_point",
            _update_integration_point(ctl, c, pt, new_point_idx))

ResetIntegrationPoint(c, pt) ==
    CtlStep("_reset_integration_point", _reset_integration_point(ctl, c, pt))

ResetAllIntegrationPoints ==
    CtlStep("_reset_all_integration_points",
            _reset_all_integration_points(ctl, TRUE))

ApplyIntegrationPoints ==
    CtlStep("_apply_integration_points", _apply_integration_points(ctl))

Show == CtlStep("show", Quiet(show(ctl)))

Hide == CtlStep("hide", Quiet(hide(ctl)))

GetEffectiveIntegrationIndices(truthy) ==
    LET out == get_effective_integration_indices(ctl, truthy)
    IN  /\ ctl' = [ctl EXCEPT !.returned = out.value, !.notified = FALSE]
        /\ Observe("get_effective_integration_indices", out.exc)
        /\ UNCHANGED <<procVars, app, tracker, tab, sel, filt, toolVars>>

\* a range manager placed on the tab as range_selection_manager
AttachRangeManager(ranges) ==
    /\ tab' = [tab EXCEPT !.range_selection_manager = TRUE, !.ranges = ranges]
    /\ ctl' = [ctl EXCEPT !.notified = FALSE, !.returned = NoEffective]
    /\ Observe("attach_range_manager", "")
    /\ UNCHANGED <<procVars, app, tracker, sel, filt, toolVars>>

-----------------------------------------------------------------------------
(* Integration requests: ActionPotentialProcessor.calculate_integrals, the     *)
(* drag-selection controller of point_counter.py and the range manager         *)

\* np.trapz(data[a:b], time[a:b]) on arrays of n samples: 0.0 for fewer than
\* two samples
TrapzOver(n, a, b) ==
    [kind |-> IF PySlice(n, a, b).hi - PySlice(n, a, b).lo > 1 THEN "trapz" ELSE "zero",
     start |-> PySlice(n, a, b).lo, end |-> PySlice(n, a, b).hi]

\* np.mean(data[a:b]): nan (and a RuntimeWarning) for an empty slice
MeanOver(n, a, b) ==
    [kind |-> IF PySlice(n, a, b).hi - PySlice(n, a, b).lo > 0 THEN "mean" ELSE "nan",
     start |-> PySlice(n, a, b).lo, end |-> PySlice(n, a, b).hi]

\* set_custom_integration_points(points): points is None or a dictionary
set_custom_integration_points(p, points) ==
    IF points.isNone
    THEN [p EXCEPT !.custom_integration_points = [hyperpol |-> NoPoint, depol |-> NoPoint],
                   !.use_custom_points = FALSE]
    ELSE [p EXCEPT !.custom_integration_points =
                        [hyperpol |-> points.hyperpol, depol |-> points.depol],
                   !.use_custom_points = TRUE]

\* the start calculate_integrals slices from: the custom point when one is set
EffectiveStart(p, ranges, c) ==
    IF p.use_custom_points /\ p.custom_integration_points[c].present
    THEN p.custom_integration_points[c]
    ELSE PointAt(ranges[c].start, TRUE)

\* calculate_integrals(time, data, ranges), time and data of n samples: a float
\* start makes the slice raise TypeError, after what was assigned before it
calculate_integrals(p, n, ranges) ==
    IF ~EffectiveStart(p, ranges, "hyperpol").is_int
    THEN Raise(p, "TypeError")
    ELSE IF ~EffectiveStart(p, ranges, "depol").is_int
    THEN Raise([p EXCEPT !.integrals.hyperpol =
                    TrapzOver(n, EffectiveStart(p, ranges, "hyperpol").v,
                              ranges.hyperpol.end)],
               "TypeError")
    ELSE Ok([p EXCEPT
                !.integrals =
                    [c \in {"hyperpol", "depol"} |->
                        TrapzOver(n, EffectiveStart(p, ranges, c).v, ranges[c].end)],
                !.averages =
                    [c \in {"hyperpol", "depol"} |->
                        MeanOver(n, EffectiveStart(p, ranges, c).v, ranges[c].end)]])

\* point_counter.PurpleIntegrationController.__init__; asked / in_range record
\* the last _is_in_purple_range call and what it returned, start_point is the
\* attribute _on_press creates, pressed and dragged the coordinates of the last
\* press and of the selection the last release closed
InitSel ==
    [integration_points |-> [hyperpol |-> NoPoint, depol |-> NoPoint],
     asked |-> FALSE,
     in_range |-> FALSE,
     is_active |-> FALSE,
     start_point |-> NoPoint,
     pressed |-> NoPoint,
     dragged |-> [present |-> FALSE, start |-> 0, end |-> 0]]

\* _is_in_purple_range(x): the processor always has both slice attributes, and
\* indexing one that is None raises TypeError
_is_in_purple_range(p, x) ==
    IF ~p.hyperpol_slice.present \/ ~p.depol_slice.present
    THEN [exc |-> "TypeError", value |-> FALSE]
    ELSE [exc |-> "", value |-> p.hyperpol_slice.start <= x /\ x <= p.depol_slice.end]

\* the drag start stored for the half of the purple range it falls in; the
\* coordinate is the float of the mouse event
SelectedPoints(k, p, start) ==
    IF 2 * start < p.hyperpol_slice.start + p.depol_slice.end
    THEN [k EXCEPT !.integration_points.hyperpol = PointAt(start, FALSE)]
    ELSE [k EXCEPT !.integration_points.depol = PointAt(start, FALSE)]

\* _update_integration_points once the selection is known to be inside the range
StoreSelection(k, p) ==
    [k |-> k,
     p |-> set_custom_integration_points(
              p, [isNone |-> FALSE, hyperpol |-> k.integration_points.hyperpol,
                  depol |-> k.integration_points.depol]),
     exc |-> ""]

\* _update_integration_points(start, end)
_update_integration_points(k, p, start, end) ==
    IF ~p.hyperpol_slice.present \/ ~p.depol_slice.present
    THEN [k |-> k, p |-> p, exc |-> "TypeError"]
    ELSE IF Min(start, end) >= p.hyperpol_slice.start
            /\ Max(start, end) <= p.depol_slice.end
    THEN StoreSelection(SelectedPoints(k, p, Min(start, end)), p)
    ELSE [k |-> k, p |-> p, exc |-> ""]

\* reset()
reset(k, p) ==
    [k |-> [k EXCEPT !.integration_points = [hyperpol |-> NoPoint, depol |-> NoPoint]],
     p |-> set_custom_integration_points(
              p, [isNone |-> TRUE, hyperpol |-> NoPoint, depol |-> NoPoint]),
     exc |-> ""]

\* _on_press(event) with the pointer inside the axes at event.xdata = x
_on_press(k, p, x) ==
    IF ~k.is_active
    THEN [k |-> k, p |-> p, exc |-> ""]
    ELSE IF _is_in_purple_range(p, x).exc # ""
    THEN [k |-> k, p |-> p, exc |-> _is_in_purple_range(p, x).exc]
    ELSE IF _is_in_purple_range(p, x).value
    THEN [k |-> [k EXCEPT !.start_point = PointAt(x, FALSE)], p |-> p, exc |-> ""]
    ELSE [k |-> k, p |-> p, exc |-> ""]

\* the end of _on_release: delattr(self, 'start_point')
ForgetStart(r) == [r EXCEPT !.k.start_point = NoPoint]

\* _on_release(event) with the pointer inside the axes at event.xdata = x
_on_release(k, p, x) ==
    IF ~k.is_active \/ ~k.start_point.present
    THEN [k |-> k, p |-> p, exc |-> ""]
    ELSE ForgetStart(_update_integration_points(k, p, k.start_point.v, x))

\* lengths of the time / data arrays handed to calculate_integrals
IntegralLens == {1, 300}

\* (start, end) pairs of a request
IntegralRanges == { Range(0, 0), Range(10, 11), Range(0, 200) }

\* mouse coordinates of a selection
SelectionCoords == {1000, 1028}

SelStep(op, r) ==
    /\ sel' = [r.k EXCEPT !.asked = FALSE, !.in_range = FALSE]
    /\ proc' = r.p
    /\ Observe(op, r.exc)
    /\ twice' = FALSE
    /\ UNCHANGED <<failStage, result, prevResult, lastParams, yielded, app, tracker, ctl, tab, filt, toolVars>>

\* the owner of the controller switching it on or off (is_active is an
\* attribute no method of the class assigns after __init__)
SetActive(active) ==
    /\ sel' = [sel EXCEPT !.is_active = active]
    /\ Observe("is_active", "")
    /\ UNCHANGED <<procVars, app, tracker, ctl, tab, filt, toolVars>>

\* a press or a release of the mouse button at x
MouseStep(op, r, pressed, dragged) ==
    /\ sel' = [r.k EXCEPT !.asked = FALSE, !.in_range = FALSE,
                          !.pressed = pressed, !.dragged = dragged]
    /\ proc' = r.p
    /\ Observe(op, r.exc)
    /\ twice' = FALSE
    /\ UNCHANGED <<failStage, result, prevResult, lastParams, yielded, app, tracker, ctl, tab, filt, toolVars>>

OnPress(x) ==
    MouseStep("_on_press", _on_press(sel, proc, x), PointAt(x, FALSE), sel.dragged)

OnRelease(x) ==
    MouseStep("_on_release", _on_release(sel, proc, x), sel.pressed,
              [present |-> sel.is_active /\ sel.start_point.present,
               start |-> Min(sel.start_point.v, x),
               end |-> Max(sel.start_point.v, x)])

IsInPurpleRange(x) ==
    /\ sel' = [sel EXCEPT !.asked = TRUE, !.in_range = _is_in_purple_range(proc, x).value]
    /\ Observe("_is_in_purple_range", _is_in_purple_range(proc, x).exc)
    /\ UNCHANGED <<procVars, app, tracker, ctl, tab, filt, toolVars>>

UpdateIntegrationPoints(start, end) ==
    SelStep("_update_integration_points", _update_integration_points(sel, proc, start, end))

ResetSelection == SelStep("reset", reset(sel, proc))

CalculateIntegrals(n, ranges) ==
    /\ Direct("calculate_integrals", calculate_integrals(proc, n, ranges))
    /\ UNCHANGED <<yielded, sel>>

\* the dictionaries a caller hands to calculate_range_integral_with_custom_start
CustomStartPoints ==
    { [has_enabled |-> e, enabled |-> e, has_points |-> e,
       points |-> [hyperpol |-> h, depol |-> 0]] :
        e \in BOOLEAN, h \in {100} }

\* calculate_range_integral_with_custom_start called on the range manager
CalculateRangeIntegral(processor, custom_start_points) ==
    /\ tab.range_selection_manager
    /\ tab' = calculate_range_integral_with_custom_start(tab, processor,
                                                         custom_start_points)
    /\ Observe("calculate_range_integral_with_custom_start", "")
    /\ UNCHANGED <<procVars, app, tracker, ctl, sel, filt, toolVars>>

-----------------------------------------------------------------------------
(* filtering.py: combined_filter and the filters it chains.  A signal is the   *)
(* sequence of filters it has been through.                                    *)

\* combined_filter is applied to its own output at most this many times
MaxPasses == 2

FilterNames ==
    {"extract_add_filter", "apply_savgol_filter", "apply_fft_filter",
     "butter_lowpass_filter"}

\* savgol_params / butter_params: None, an empty dictionary or the parameters
DictArgs == {"None", "empty", "dict"}

\* fft_threshold: None, 0 or a positive number
ThresholdArgs == {"None", "zero", "positive"}

\* one filter call (apply_savgol_filter, apply_fft_filter, butter_lowpass_filter,
\* extract_add_filter): the filtered copy, or the exception the filter
\* re-raises; failing names the filter whose numeric routine rejects its arguments
FilterCall(name, data, failing) ==
    IF name = failing
    THEN [value |-> data, exc |-> "Exception"]
    ELSE [value |-> Append(data, name), exc |-> ""]

\* one `if <stage enabled>: filtered_data = <filter>(filtered_data, ...)` of
\* combined_filter, on what the step before left
FilterStep(name, enabled, out, failing) ==
    IF out.exc = "" /\ enabled
    THEN FilterCall(name, out.value, failing)
    ELSE out

\* the definition of combined_filter at filtering.py:99, which the later
\* definition of the same name replaces: it has no extract-add step
combined_filter_FirstDefinition(data, savgol_params, fft_threshold, butter_params, use_extract_add, failing) ==
    FilterStep("butter_lowpass_filter", butter_params = "dict",
        FilterStep("apply_fft_filter", fft_threshold # "None",
            FilterStep("apply_savgol_filter", savgol_params = "dict",
                [value |-> data, exc |-> ""], failing),
            failing),
        failing)

\* combined_filter(data, savgol_params, fft_threshold, butter_params,
\*                 use_extract_add, extract_add_params): a dictionary enables
\* its stage when it is not empty, the threshold when it is not None
combined_filter(data, savgol_params, fft_threshold, butter_params, use_extract_add, failing) ==
    FilterStep("butter_lowpass_filter", butter_params = "dict",
        FilterStep("apply_fft_filter", fft_threshold # "None",
            FilterStep("apply_savgol_filter", savgol_params = "dict",
                FilterStep("extract_add_filter", use_extract_add,
                    [value |-> data, exc |-> ""], failing),
                failing),
            failing),
        failing)

InitFilt ==
    [called |-> FALSE, passes |-> 0, input |-> <<>>, use_extract_add |-> FALSE,
     savgol_params |-> "None", fft_threshold |-> "None", butter_params |-> "None",
     output |-> <<>>, exc |-> ""]

\* combined_filter called on a raw signal (again = FALSE) or on what the
\* call before returned
CombinedFilter(again, savgol_params, fft_threshold, butter_params, use_extract_add, failing) ==
    /\ again => (filt.called /\ filt.exc = "" /\ filt.passes < MaxPasses)
    /\ filt' =
        [called |-> TRUE,
         passes |-> IF again THEN filt.passes + 1 ELSE 1,
         input |-> IF again THEN filt.output ELSE <<>>,
         use_extract_add |-> use_extract_add,
         savgol_params |-> savgol_params,
         fft_threshold |-> fft_threshold,
         butter_params |-> butter_params,
         output |-> combined_filter(IF again THEN filt.output ELSE <<>>,
                                    savgol_params, fft_threshold, butter_params,
                                    use_extract_add, failing).value,
         exc |-> combined_filter(IF again THEN filt.output ELSE <<>>,
                                 savgol_params, fft_threshold, butter_params,
                                 use_extract_add, failing).exc]
    /\ Observe("combined_filter",
               combined_filter(IF again THEN filt.output ELSE <<>>,
                               savgol_params, fft_threshold, butter_params,
                               use_extract_add, failing).exc)
    /\ UNCHANGED <<procVars, app, tracker, ctl, tab, sel, toolVars>>

-----------------------------------------------------------------------------
(* The applications that filter a loaded signal: SignalAnalyzerApp with its    *)
(* FilterTab (gui/app.py, gui/filter_tab.py) and NoiseCancellingApp            *)
(* (interactive_filter_app.py)                                                 *)

\* a stored signal; None before a file is loaded
NoSignal == [present |-> FALSE, value |-> <<>>]
Signal(v) == [present |-> TRUE, value |-> v]

\* __init__ of both applications; stage_raised and error record what the last
\* filter handler met
InitFilterApps ==
    [main |-> [data |-> NoSignal, filtered_data |-> NoSignal,
               current_filters |-> {}, stage_raised |-> FALSE, error |-> ""],
     noise |-> [data |-> NoSignal, filtered_data |-> NoSignal,
                stage_raised |-> FALSE]]

\* FilterTab.get_active_filters(): the keys of the dictionary it returns
get_active_filters(use_savgol, use_fft, use_butterworth, use_extract_add) ==
    (IF use_savgol THEN {"savgol_params"} ELSE {})
    \cup (IF use_fft THEN {"fft_params"} ELSE {})
    \cup (IF use_butterworth THEN {"butter_params"} ELSE {})
    \cup (IF use_extract_add THEN {"extract_add_params"} ELSE {})

\* combined_filter(self.data, **filters): a key that is no parameter of
\* combined_filter is a TypeError before its body runs; fft_threshold and
\* use_extract_add keep their defaults, extract_add_params is bound and unread
CallCombinedFilter(data, filters, failing) ==
    IF "fft_params" \in filters
    THEN [value |-> data, exc |-> "TypeError"]
    ELSE combined_filter(data,
                         IF "savgol_params" \in filters THEN "dict" ELSE "None",
                         "None",
                         IF "butter_params" \in filters THEN "dict" ELSE "None",
                         FALSE, failing)

\* the assignment of on_filter_change and its except branch
StoreFiltered(a, out) ==
    IF out.exc = ""
    THEN [a EXCEPT !.filtered_data = Signal(out.value), !.stage_raised = FALSE,
                   !.error = ""]
    ELSE [a EXCEPT !.stage_raised = (out.exc = "Exception"), !.error = out.exc]

\* SignalAnalyzerApp.on_filter_change(filters)
on_filter_change(a, filters, failing) ==
    IF ~a.data.present
    THEN [a EXCEPT !.stage_raised = FALSE, !.error = ""]
    ELSE StoreFiltered([a EXCEPT !.current_filters = filters],
                       CallCombinedFilter(a.data.value, filters, failing))

\* the three conditional stages of NoiseCancellingApp.apply_filters
NoiseChain(data, apply_savgol, apply_fft, apply_butter, failing) ==
    FilterStep("butter_lowpass_filter", apply_butter,
        FilterStep("apply_fft_filter", apply_fft,
            FilterStep("apply_savgol_filter", apply_savgol,
                [value |-> data, exc |-> ""], failing),
            failing),
        failing)

\* apply_filters without `self.filtered_data = self.data.copy()` in its
\* except branch
apply_filters_NoReset(a, out) ==
    [a |-> [a EXCEPT !.filtered_data = Signal(out.value),
                     !.stage_raised = (out.exc # "")],
     exc |-> out.exc]

\* NoiseCancellingApp.apply_filters() from the first stage on: every stage
\* assigns self.filtered_data, the except branch resets it and re-raises
apply_filters(a, out) ==
    [a |-> [a EXCEPT !.filtered_data =
                        IF out.exc = "" THEN Signal(out.value) ELSE a.data,
                     !.stage_raised = (out.exc # "")],
     exc |-> out.exc]

\* load_data / load_atf_file: the signal of the file and a copy of it
LoadSignal(which) ==
    /\ fapps' = [fapps EXCEPT ![which].data = Signal(<<>>),
                              ![which].filtered_data = Signal(<<>>),
                              ![which].stage_raised = FALSE]
    /\ Observe("load_signal", "")
    /\ UNCHANGED <<procVars, analysisVars, fftCall, batch, learn, eaCall>>

OnFilterChange(use_savgol, use_fft, use_butterworth, use_extract_add, failing) ==
    /\ fapps' = [fapps EXCEPT !.main =
                    on_filter_change(fapps.main,
                                     get_active_filters(use_savgol, use_fft,
                                                        use_butterworth, use_extract_add),
                                     failing)]
    /\ Observe("on_filter_change", "")
    /\ UNCHANGED <<procVars, analysisVars, fftCall, batch, learn, eaCall>>

ApplyFilters(apply_savgol, apply_fft, apply_butter, failing) ==
    /\ fapps.noise.data.present
    /\ fapps' = [fapps EXCEPT !.noise =
                    apply_filters(fapps.noise,
                                  NoiseChain(fapps.noise.data.value, apply_savgol,
                                             apply_fft, apply_butter, failing)).a]
    /\ Observe("apply_filters",
               NoiseChain(fapps.noise.data.value, apply_savgol, apply_fft,
                          apply_butter, failing).exc)
    /\ UNCHANGED <<procVars, analysisVars, fftCall, batch, learn, eaCall>>

-----------------------------------------------------------------------------
(* filtering.py: apply_fft_filter.  A real signal of four samples is given by   *)
(* the magnitudes of its transform: bin 1 is the zero-frequency (DC) bin and    *)
(* bins 2 and 4 of a real signal have the same magnitude.                       *)

\* largest magnitude of a bin
MaxMagnitude == 3

\* np.abs(fft(data)) of the signals tried
Spectra ==
    { <<dc, a, b, a>> : dc \in 0..MaxMagnitude, a \in 0..MaxMagnitude,
                        b \in 0..MaxMagnitude }

\* threshold, in tenths: 0, the default of the filter tab, one half and 1
ThresholdTenths == {0, 2, 5, 10}

\* np.max(magnitudes)
MaxOf(magnitudes) ==
    CHOOSE x \in 0..MaxMagnitude + 1 :
        /\ \E i \in 1..Len(magnitudes) : magnitudes[i] = x
        /\ \A i \in 1..Len(magnitudes) : magnitudes[i] <= x

\* apply_fft_filter(data, threshold): mask = magnitudes > threshold * max_magnitude,
\* filtered_fft = fft_data * mask; the magnitudes of filtered_fft
apply_fft_filter(magnitudes, threshold) ==
    [i \in 1..Len(magnitudes) |->
        IF magnitudes[i] * 10 > threshold * MaxOf(magnitudes)
        THEN magnitudes[i] ELSE 0]

InitFftCall ==
    [called |-> FALSE, magnitudes |-> <<0, 0, 0, 0>>, threshold |-> 0,
     filtered |-> <<0, 0, 0, 0>>]

ApplyFftFilter(magnitudes, threshold) ==
    /\ fftCall' = [called |-> TRUE, magnitudes |-> magnitudes,
                   threshold |-> threshold,
                   filtered |-> apply_fft_filter(magnitudes, threshold)]
    /\ Observe("apply_fft_filter", "")
    /\ UNCHANGED <<procVars, analysisVars, fapps, batch, learn, eaCall>>

-----------------------------------------------------------------------------
(* batch_processor.py: BatchProcessor.process_folder.  The files found are     *)
(* numbered 1..files; what the handler, the filters and the analysis do with a *)
(* file is an input of the loop body.                                          *)

\* most files a folder holds
MaxFiles == 3

\* a file whose loading raises, loads as an empty dictionary, whose processing
\* raises, whose result says success False, or that succeeds
FileOutcomes == {"load_raised", "no_data", "process_raised", "unsuccessful", "ok"}

\* export_path is None, the export is written, or creating its directory raises
ExportOutcomes == {"none", "written", "mkdir_raised"}

NoReturn ==
    [present |-> FALSE, raised |-> FALSE, success |-> FALSE, files_processed |-> 0,
     results_count |-> 0, summary |-> FALSE]

\* BatchProcessor.__init__; files is the number of files the last call found,
\* attempts and outcomes record what its loop did
InitBatch ==
    [pc |-> "idle", files |-> 0, next |-> 1, results |-> <<>>,
     summary |-> [kind |-> "empty", files_processed |-> 0],
     attempts |-> [i \in 1..MaxFiles + 1 |-> 0],
     outcomes |-> [i \in 1..MaxFiles + 1 |-> "none"],
     returned |-> NoReturn]

\* load_atf(file_path): None when the handler raises
load_atf(outcome) ==
    IF outcome = "load_raised" THEN "None"
    ELSE IF outcome = "no_data" THEN "empty"
    ELSE "data"

\* process_data(data, filename)
process_data(outcome) ==
    [exc |-> IF outcome = "process_raised" THEN "Exception" ELSE "",
     success |-> outcome = "ok"]

\* aggregate_results(result, filename)
aggregate_results(b, res, file) ==
    IF res.success THEN [b EXCEPT !.results = Append(@, file)] ELSE b

\* the loop of process_folder abandoned when a file raises
ProcessOneFile_Abort(b, outcome) ==
    IF outcome \in {"load_raised", "process_raised"}
    THEN [b EXCEPT !.attempts[b.next] = @ + 1, !.outcomes[b.next] = outcome,
                   !.next = b.files + 1]
    ELSE [aggregate_results(b, process_data(outcome), b.next)
            EXCEPT !.attempts[b.next] = @ + 1, !.outcomes[b.next] = outcome,
                   !.next = b.next + 1]

\* one pass of `for file_path in atf_files` with its try/except
ProcessOneFile(b, outcome) ==
    IF load_atf(outcome) = "data" /\ process_data(outcome).exc = ""
    THEN [aggregate_results(b, process_data(outcome), b.next)
            EXCEPT !.attempts[b.next] = @ + 1, !.outcomes[b.next] = outcome,
                   !.next = b.next + 1]
    ELSE [b EXCEPT !.attempts[b.next] = @ + 1, !.outcomes[b.next] = outcome,
                   !.next = b.next + 1]

\* generate_summary()
generate_summary(b) ==
    IF b.results = <<>>
    THEN [b EXCEPT !.summary = [kind |-> "message", files_processed |-> 0]]
    ELSE [b EXCEPT !.summary = [kind |-> "statistics",
                                files_processed |-> Len(b.results)]]

\* the end of process_folder: export_results and the dictionary returned
ReturnSummary(b, export) ==
    [b EXCEPT !.pc = "done",
              !.returned =
                  IF export = "mkdir_raised" /\ b.results # <<>>
                  THEN [NoReturn EXCEPT !.present = TRUE, !.raised = TRUE]
                  ELSE [present |-> TRUE, raised |-> FALSE, success |-> TRUE,
                        files_processed |-> b.files,
                        results_count |-> Len(b.results),
                        summary |-> TRUE]]

\* process_folder(folder_path, ...) up to the loop
process_folder(b, valid, files) ==
    IF ~valid
    THEN [b EXCEPT !.pc = "done", !.files = 0,
                   !.returned = [NoReturn EXCEPT !.present = TRUE]]
    ELSE IF files = 0
    THEN [b EXCEPT !.pc = "done", !.files = 0, !.results = <<>>,
                   !.returned = [NoReturn EXCEPT !.present = TRUE]]
    ELSE [b EXCEPT !.pc = "loop", !.results = <<>>, !.files = files, !.next = 1,
                   !.attempts = InitBatch.attempts,
                   !.outcomes = InitBatch.outcomes,
                   !.returned = NoReturn]

ProcessFolder(valid, files) ==
    /\ batch.pc # "loop"
    /\ batch' = process_folder(batch, valid, files)
    /\ Observe("process_folder", "")
    /\ UNCHANGED <<procVars, analysisVars, fapps, fftCall, learn, eaCall>>

ProcessFile(outcome) ==
    /\ batch.pc = "loop"
    /\ batch.next <= batch.files
    /\ batch' = ProcessOneFile(batch, outcome)
    /\ Observe("process_folder: file", "")
    /\ UNCHANGED <<procVars, analysisVars, fapps, fftCall, learn, eaCall>>

FinishFolder(export) ==
    /\ batch.pc = "loop"
    /\ batch.next > batch.files
    /\ batch' = ReturnSummary(generate_summary(batch), export)
    /\ Observe("process_folder: return",
               IF export = "mkdir_raised" /\ batch.results # <<>>
               THEN "OSError" ELSE "")
    /\ UNCHANGED <<procVars, analysisVars, fapps, fftCall, learn, eaCall>>

-----------------------------------------------------------------------------
(* ai/continuous_learning.py: ContinuousLearning.  Threads are numbered in the *)
(* order start_monitoring creates them; a thread is at the test of its while   *)
(* loop, inside _check_all_models, in time.sleep, or has returned.             *)

\* most threads start_monitoring creates
MaxThreads == 2

\* monitoring_window_size: the maxlen of a model's deque
WindowSize == 2

\* largest value of time.time()
MaxClock == 2

Threads == 1..MaxThreads

\* most record_prediction calls
MaxCalls == WindowSize + 2

\* ContinuousLearning.__init__ (monitor_thread 0 is None); caller is where the
\* thread calling stop_monitoring stands, stopped that stop_monitoring has
\* returned and start_monitoring has not been called since, check_after_stop
\* that a _check_all_models run began in that time.  prediction_history is the
\* deque of one model type, clock the last value of time.time(), calls the
\* number of record_prediction calls; asked and updated are the call whose ID
\* the last update_actual_result was given and the call whose entry it changed
InitLearn ==
    [monitoring_active |-> FALSE, monitor_thread |-> 0,
     threads |-> [t \in Threads |-> "unborn"],
     caller |-> "idle", stopped |-> FALSE, check_after_stop |-> FALSE,
     clock |-> 0, calls |-> 0, prediction_history |-> <<>>,
     asked |-> 0, updated |-> 0]

Unborn(l) == { t \in Threads : l.threads[t] = "unborn" }

\* the thread threading.Thread(...) creates next
NewThread(l) == CHOOSE t \in Unborn(l) : \A u \in Unborn(l) : t <= u

\* start_monitoring()
start_monitoring(l) ==
    IF l.monitoring_active THEN l
    ELSE [l EXCEPT !.monitoring_active = TRUE,
                   !.monitor_thread = NewThread(l),
                   !.threads[NewThread(l)] = "test",
                   !.stopped = FALSE]

\* stop_monitoring() up to monitor_thread.join(timeout=5.0)
stop_monitoring(l) ==
    IF ~l.monitoring_active THEN l
    ELSE [l EXCEPT !.monitoring_active = FALSE,
                   !.caller = IF l.monitor_thread # 0 THEN "joining" ELSE "idle",
                   !.stopped = (l.monitor_thread = 0)]

\* `while self.monitoring_active:` of _monitoring_loop
LoopTest(l, t) ==
    IF l.monitoring_active
    THEN [l EXCEPT !.threads[t] = "check",
                   !.check_after_stop = (@ \/ l.stopped)]
    ELSE [l EXCEPT !.threads[t] = "exited"]

StartMonitoring ==
    /\ learn.caller = "idle"
    /\ learn.monitoring_active \/ Unborn(learn) # {}
    /\ learn' = start_monitoring(learn)
    /\ Observe("start_monitoring", "")
    /\ UNCHANGED <<procVars, analysisVars, fapps, fftCall, batch, eaCall>>

StopMonitoring ==
    /\ learn.caller = "idle"
    /\ learn' = stop_monitoring(learn)
    /\ Observe("stop_monitoring", "")
    /\ UNCHANGED <<procVars, analysisVars, fapps, fftCall, batch, eaCall>>

\* join(timeout=5.0) returns: the thread has returned, or five seconds passed
\* while it was in _check_all_models or in time.sleep(check_interval)
JoinReturns(timed_out) ==
    /\ learn.caller = "joining"
    /\ IF timed_out
       THEN learn.threads[learn.monitor_thread] \in {"check", "sleep"}
       ELSE learn.threads[learn.monitor_thread] = "exited"
    /\ learn' = [learn EXCEPT !.caller = "idle", !.stopped = TRUE]
    /\ Observe("stop_monitoring: return", "")
    /\ UNCHANGED <<procVars, analysisVars, fapps, fftCall, batch, eaCall>>

MonitoringLoopTest(t) ==
    /\ learn.threads[t] = "test"
    /\ learn' = LoopTest(learn, t)
    /\ Observe("_monitoring_loop: while", "")
    /\ UNCHANGED <<procVars, analysisVars, fapps, fftCall, batch, eaCall>>

\* _check_all_models() returns and time.sleep(check_interval) begins
CheckAllModels(t) ==
    /\ learn.threads[t] = "check"
    /\ learn' = [learn EXCEPT !.threads[t] = "sleep"]
    /\ Observe("_check_all_models", "")
    /\ UNCHANGED <<procVars, analysisVars, fapps, fftCall, batch, eaCall>>

\* time.sleep(check_interval) returns
SleepReturns(t) ==
    /\ learn.threads[t] = "sleep"
    /\ learn' = [learn EXCEPT !.threads[t] = "test"]
    /\ Observe("_monitoring_loop: sleep", "")
    /\ UNCHANGED <<procVars, analysisVars, fapps, fftCall, batch, eaCall>>

\* deque(maxlen=WindowSize).append(item)
DequeAppend(d, item) ==
    IF Len(d) < WindowSize THEN Append(d, item) ELSE Append(Tail(d), item)

\* record_prediction(model_type, prediction, actual=None) at time.time() = now:
\* the ID is str(time.time()) + "_" + str(len(deque))
record_prediction(l, now) ==
    [l EXCEPT !.clock = now,
              !.calls = @ + 1,
              !.prediction_history =
                  DequeAppend(@, [id |-> <<now, Len(l.prediction_history)>>,
                                  actual |-> FALSE, call |-> l.calls + 1])]

\* position of the first entry of the deque with this ID
FirstWithId(d, id) ==
    CHOOSE i \in 1..Len(d) : d[i].id = id /\ \A j \in 1..(i - 1) : d[j].id # id

\* update_actual_result(model_type, prediction_id, actual) with the ID that
\* record_prediction returned to call number asked
update_actual_result(l, asked, id) ==
    [l EXCEPT !.prediction_history[FirstWithId(l.prediction_history, id)].actual = TRUE,
              !.asked = asked,
              !.updated = l.prediction_history[FirstWithId(l.prediction_history, id)].call]

RecordPrediction(now) ==
    /\ learn.calls < MaxCalls
    /\ now >= learn.clock
    /\ learn' = record_prediction(learn, now)
    /\ Observe("record_prediction", "")
    /\ UNCHANGED <<procVars, analysisVars, fapps, fftCall, batch, eaCall>>

UpdateActualResult(i) ==
    /\ i \in 1..Len(learn.prediction_history)
    /\ learn' = update_actual_result(learn, learn.prediction_history[i].call,
                                     learn.prediction_history[i].id)
    /\ Observe("update_actual_result", "")
    /\ UNCHANGED <<procVars, analysisVars, fapps, fftCall, batch, eaCall>>

-----------------------------------------------------------------------------
(* filtering.py: extract_add_filter.  A signal is given by its length and by    *)
(* the samples find_peaks and the peak widths put into event_mask; a sample of  *)
(* the output is given by the terms that were added up to make it.              *)

\* samples of the signals tried
SignalLen == 7

\* baseline[event_mask].mean(): numpy returns nan for an empty selection
MeanOfEvents(event_mask) == IF event_mask = {} THEN "nan" ELSE "number"

\* positions j where event_mask changes between j and j + 1 and the guard
\* `edge > 1 and edge < len(data) - 2` lets the transition be smoothed
SmoothedEdges(n, event_mask) ==
    { j \in 1..(n - 1) : /\ (j \in event_mask) # (j + 1 \in event_mask)
                          /\ j > 2 /\ j < n - 1 }

\* extract_add_filter(data, ...): np.interp has nothing to interpolate from
\* when every sample is an event; otherwise
\* filtered_data = filtered_baseline + events - baseline[event_mask].mean()
\* for every sample, then the transitions are averaged with their neighbours
extract_add_filter(n, event_mask) ==
    IF event_mask = 1..n
    THEN [exc |-> "ValueError", value |-> <<>>]
    ELSE [exc |-> "",
          value |-> [i \in 1..n |->
                        [filtered_baseline |-> TRUE,
                         event |-> i \in event_mask,
                         mean_subtracted |-> TRUE,
                         nan |-> MeanOfEvents(event_mask) = "nan",
                         transition |-> \E j \in SmoothedEdges(n, event_mask) :
                                            j - 2 <= i /\ i <= j + 2]]]

InitEaCall == [called |-> FALSE, n |-> 0, event_mask |-> {}, value |-> <<>>, exc |-> ""]

ExtractAddFilter(n, event_mask) ==
    /\ eaCall' = [called |-> TRUE, n |-> n, event_mask |-> event_mask,
                  value |-> extract_add_filter(n, event_mask).value,
                  exc |-> extract_add_filter(n, event_mask).exc]
    /\ Observe("extract_add_filter", extract_add_filter(n, event_mask).exc)
    /\ UNCHANGED <<procVars, analysisVars, fapps, fftCall, batch, learn>>

Init ==
    /\ proc = InitProcessor
    /\ lastOp = "init"
    /\ lastExc = ""
    /\ failStage = ""
    /\ result = NoneResult
    /\ prevResult = NoneResult
    /\ twice = FALSE
    /\ yielded = <<>>
    /\ app = InitApp
    /\ tracker = InitTracker
    /\ ctl = InitCtl
    /\ tab = InitTab
    /\ sel = InitSel
    /\ lastParams = NoParams
    /\ filt = InitFilt
    /\ fapps = InitFilterApps
    /\ fftCall = InitFftCall
    /\ batch = InitBatch
    /\ learn = InitLearn
    /\ eaCall = InitEaCall

Next ==
    \/ \E tr \in Traces : SetData(tr)
    \/ \E upd \in ParamUpdates, orangeDefined \in BOOLEAN : Analyze(upd, orangeDefined)

Spec == Init /\ [][Next]_vars

-----------------------------------------------------------------------------
(* The curve derivation methods called on their own *)

NextCurves ==
    \/ \E tr \in CurveTraces : SetData(tr)
    \/ BaselineCorrection
    \/ CalculateBlueCurve
    \/ CalculateMagentaCurve
    \/ CalculatePurpleCurves

SpecCurves == Init /\ [][NextCurves]_vars

-----------------------------------------------------------------------------
(* The application window driving an analysis *)

SignalOutcomes == {"raise", "none", "ok"}

NextApp ==
    \/ \E tr \in CurveTraces : LoadData(tr)
    \/ \E upd \in ParamUpdates, visibility_update, ctor, peaks \in BOOLEAN,
          sig \in SignalOutcomes :
            OnActionPotentialAnalysis(upd, visibility_update, ctor, sig, peaks)
    \/ UpdatePointTracking

SpecApp == Init /\ [][NextApp]_vars

-----------------------------------------------------------------------------
(* The integration-range controller on the tab *)

NextCtl ==
    \/ \E processor \in CtlProcessors : SetProcessor(processor)
    \/ \E enabled \in BOOLEAN : ToggleCustomPoints(enabled)
    \/ \E c \in CurveTypes, pt \in PointTypes, v \in PointInputs :
            UpdateIntegrationPoint(c, pt, v)
    \/ \E c \in CurveTypes, pt \in PointTypes : ResetIntegrationPoint(c, pt)
    \/ ResetAllIntegrationPoints
    \/ ApplyIntegrationPoints
    \/ Show
    \/ Hide
    \/ \E truthy \in BOOLEAN : GetEffectiveIntegrationIndices(truthy)

SpecCtl == Init /\ [][NextCtl]_vars

-----------------------------------------------------------------------------
(* The controller reporting to a tab that holds a range manager *)

TabProcessors ==
    { CtlProcessor(Samples(200), Samples(200), TimeOf(200, FALSE)),
      CtlProcessor(Samples(199), Samples(200), TimeOf(2000, FALSE)) }

TabPointInputs == {-1, 100, 10000}

NextTab ==
    \/ \E processor \in TabProcessors : SetProcessor(processor)
    \/ \E enabled \in BOOLEAN : ToggleCustomPoints(enabled)
    \/ \E c \in CurveTypes, pt \in PointTypes, v \in TabPointInputs :
            UpdateIntegrationPoint(c, pt, v)
    \/ ApplyIntegrationPoints
    \/ Show
    \/ \E ranges \in RangeSets : AttachRangeManager(ranges)

SpecTab == Init /\ [][NextTab]_vars

-----------------------------------------------------------------------------
(* Integration and range-selection requests *)

\* slider positions of the range manager
ManagerRanges ==
    { [hyperpol |-> Range(10, 150), depol |-> Range(99, 100)],
      [hyperpol |-> Range(50, 50), depol |-> Range(0, 300)] }

NextIntegrals ==
    \/ \E tr \in { t \in CurveTraces : t.len \in {1000, 2000} } : SetData(tr)
    \/ BaselineCorrection
    \/ CalculatePurpleCurves
    \/ \E x \in SelectionCoords : IsInPurpleRange(x)
    \/ \E start, end \in SelectionCoords : UpdateIntegrationPoints(start, end)
    \/ ResetSelection
    \/ \E n \in IntegralLens, h \in IntegralRanges, d \in {Range(0, 0), Range(0, 200)} :
            CalculateIntegrals(n, [hyperpol |-> h, depol |-> d])
    \/ \E ranges \in ManagerRanges : AttachRangeManager(ranges)
    \/ \E custom \in CustomStartPoints :
            CalculateRangeIntegral(
                CtlProcessor(Samples(200), Samples(200), TimeOf(200, FALSE)), custom)

SpecIntegrals == Init /\ [][NextIntegrals]_vars

-----------------------------------------------------------------------------
(* The filter chain *)

NextFilter ==
    \E again, use_extract_add \in BOOLEAN, savgol_params, butter_params \in DictArgs,
       fft_threshold \in ThresholdArgs, failing \in FilterNames \cup {"none"} :
        CombinedFilter(again, savgol_params, fft_threshold, butter_params,
                       use_extract_add, failing)

SpecFilter == Init /\ [][NextFilter]_vars

-----------------------------------------------------------------------------
(* The processing stages called one by one, and analyze() *)

StageTraces ==
    { tr \in Traces \cup ClippedTraces : tr.len = 1000 }
        \cup { tr \in Traces : tr.len = 1 /\ tr.troughs = {} }

\* keyword arguments that include cycle counts below 1
StageParamUpdates ==
    { [keys |-> {}, n_cycles |-> 0, t1 |-> 0],
      [keys |-> {"n_cycles"}, n_cycles |-> 0, t1 |-> 0],
      [keys |-> {"n_cycles"}, n_cycles |-> -1, t1 |-> 0],
      [keys |-> {"n_cycles"}, n_cycles |-> 1, t1 |-> 0],
      [keys |-> {"t1"}, n_cycles |-> 0, t1 |-> 0],
      [keys |-> {"t1"}, n_cycles |-> 0, t1 |-> 100] }

NextStages ==
    \/ \E tr \in StageTraces : SetData(tr)
    \/ BaselineCorrection
    \/ FindCycles
    \/ NormalizeSignal
    \/ CalculateBlueCurve
    \/ CalculateMagentaCurve
    \/ CalculatePurpleCurves
    \/ \E orangeDefined \in BOOLEAN : Analyze(NoParams, orangeDefined)

SpecStages == Init /\ [][NextStages]_vars

-----------------------------------------------------------------------------
(* analyze() called with keyword arguments of every kind *)

NextParams ==
    \/ \E tr \in StageTraces : SetData(tr)
    \/ \E upd \in StageParamUpdates, orangeDefined \in BOOLEAN :
            AnalyzeKeywords(upd, orangeDefined)

SpecParams == Init /\ [][NextParams]_vars

-----------------------------------------------------------------------------
(* The FFT filter *)

NextFft ==
    \E magnitudes \in Spectra, threshold \in ThresholdTenths :
        ApplyFftFilter(magnitudes, threshold)

SpecFft == Init /\ [][NextFft]_vars

-----------------------------------------------------------------------------
(* Batch processing of a folder *)

NextBatch ==
    \/ \E valid \in BOOLEAN, files \in 0..MaxFiles : ProcessFolder(valid, files)
    \/ \E outcome \in FileOutcomes : ProcessFile(outcome)
    \/ \E export \in ExportOutcomes : FinishFolder(export)

SpecBatch == Init /\ [][NextBatch]_vars

\* process_folder is one call running on one thread: once in its loop it goes on
\* to the next file and to its return statement
SpecBatchFair ==
    /\ SpecBatch
    /\ WF_vars(\E outcome \in FileOutcomes : ProcessFile(outcome))
    /\ WF_vars(\E export \in ExportOutcomes : FinishFolder(export))

-----------------------------------------------------------------------------
(* The monitoring thread of ContinuousLearning *)

NextMonitor ==
    \/ StartMonitoring
    \/ StopMonitoring
    \/ \E timed_out \in BOOLEAN : JoinReturns(timed_out)
    \/ \E t \in Threads : MonitoringLoopTest(t)
    \/ \E t \in Threads : CheckAllModels(t)
    \/ \E t \in Threads : SleepReturns(t)

SpecMonitor == Init /\ [][NextMonitor]_vars

-----------------------------------------------------------------------------
(* The prediction history of ContinuousLearning *)

NextPredictions ==
    \/ \E now \in 0..MaxClock : RecordPrediction(now)
    \/ \E i \in 1..WindowSize : UpdateActualResult(i)

SpecPredictions == Init /\ [][NextPredictions]_vars

-----------------------------------------------------------------------------
(* The controller as its processor is set, replaced and taken away *)

NextCtlProcessor ==
    \/ \E processor \in {NoCtlProcessor,
                         CtlProcessor(Samples(200), Samples(200), TimeOf(200, FALSE))} :
            SetProcessor(processor)
    \/ \E enabled \in BOOLEAN : ToggleCustomPoints(enabled)
    \/ \E c \in CurveTypes, pt \in PointTypes, v \in {100} :
            UpdateIntegrationPoint(c, pt, v)
    \/ \E c \in CurveTypes, pt \in PointTypes : ResetIntegrationPoint(c, pt)
    \/ ResetAllIntegrationPoints
    \/ Show
    \/ Hide

SpecCtlProcessor == Init /\ [][NextCtlProcessor]_vars

-----------------------------------------------------------------------------
(* Selecting an integration start by dragging over the purple curves *)

\* event.xdata of a press or a release: the ends of the two purple windows,
\* points inside each and a point beyond them
MouseCoords == {DEPOL_START, 900, HYPERPOL_START, 1100, HYPERPOL_END, 1300}

NextSelection ==
    \/ \E tr \in { t \in CurveTraces : t.len \in {1000, 2000} } : SetData(tr)
    \/ BaselineCorrection
    \/ CalculatePurpleCurves
    \/ \E active \in BOOLEAN : SetActive(active)
    \/ \E x \in MouseCoords : OnPress(x)
    \/ \E x \in MouseCoords : OnRelease(x)

SpecSelection == Init /\ [][NextSelection]_vars

-----------------------------------------------------------------------------
(* The extract-add filter *)

NextExtractAdd ==
    \E event_mask \in SUBSET (1..SignalLen) : ExtractAddFilter(SignalLen, event_mask)

SpecExtractAdd == Init /\ [][NextExtractAdd]_vars

-----------------------------------------------------------------------------
(* Claims about the processor *)

NonOverlapping(ws) ==
    \A i, j \in 1..Len(ws) : i < j => ws[i][2] <= ws[j][1]

IncreasingStarts(ws) ==
    \A i, j \in 1..Len(ws) : i < j => ws[i][1] < ws[j][1]

\* find_cycles ran to its end in the analyze() call that ran last
FindCyclesRan ==
    lastOp = "analyze" /\ failStage \notin {"baseline_correction", "find_cycles"}

TroughsDetected == Len(find_peaks(proc.processed_data.troughs, t1_samples(proc)))

\* C1: when at least n_cycles troughs are detected, find_cycles yields exactly
\* n_cycles windows, pairwise non-overlapping and in strictly increasing start order.
C1_CyclesDisjointOrdered ==
    (FindCyclesRan /\ proc.params.n_cycles >= 1
        /\ TroughsDetected >= proc.params.n_cycles)
    => /\ Len(yielded) = proc.params.n_cycles
       /\ NonOverlapping(yielded)
       /\ IncreasingStarts(yielded)

\* C2: two analyze() calls in a row with the same trace and the same parameters
\* return equal results.
C2_AnalyzeTwiceSameResult == twice => result = prevResult

C2_Witness ==
    /\ twice
    /\ lastOp = "analyze"
    /\ proc.data.len = 2000
    /\ Len(proc.cycle_indices) = 2
    /\ failStage = "log_curve_details"

\* C3: after analyze(), cycles, cycle_times and cycle_indices hold exactly the
\* cycles the most recent call detected, at most n_cycles of them.
C3_OnlyLatestCycles ==
    lastOp = "analyze"
    => /\ proc.cycle_indices = yielded
       /\ Len(proc.cycles) = Len(yielded)
       /\ Len(proc.cycle_times) = Len(yielded)
       /\ Len(proc.cycle_indices) <= proc.params.n_cycles

\* the trace is set, long enough for every derived curve, and the parameters are valid
ValidInput ==
    /\ proc.data.present
    /\ proc.data.len > PURPLE_MIN_LEN
    /\ proc.params.n_cycles >= 1
    /\ proc.params.t1 > 0

\* C4: analyze() on a valid trace returns a result, not None, whose orange is the
\* entire processed trace and whose blue, magenta and purple curves are its slices.
C4_AnalyzeReturnsCurves ==
    (lastOp = "analyze" /\ ValidInput)
    => /\ ~result.isNone
       /\ result.orange = View(0, proc.data.len)
       /\ result.blue = View(BLUE_START, BLUE_END)
       /\ result.magenta = View(BLUE_START, BLUE_START + MAGENTA_POINTS)
       /\ result.purple_depol = View(DEPOL_START, DEPOL_END)
       /\ result.purple_hyperpol = View(HYPERPOL_START, HYPERPOL_END)

\* C5: when a stage of analyze() fails the caller can tell: the exception reaches
\* the caller, or the returned result is structured and names the failure.
C5_FailureVisible ==
    (lastOp = "analyze" /\ failStage # "")
    => \/ lastExc # ""
       \/ (~result.isNone /\ FailureMark(result) # "")

PurpleLong == proc.processed_data.present /\ proc.processed_data.len > PURPLE_MIN_LEN

\* C6: after calculate_purple_curves both purple curves and both slice pairs are
\* present, as [828,1028) and [1028,1227), exactly when processed_data has more than
\* 1227 samples, and all four are None otherwise; a curve is never held without
\* its slice pair.
C6_PurpleIffLongEnough ==
    /\ lastOp = "calculate_purple_curves"
        => IF PurpleLong
           THEN /\ proc.depol_slice = SliceOf(DEPOL_START, DEPOL_END)
                /\ proc.hyperpol_slice = SliceOf(HYPERPOL_START, HYPERPOL_END)
                /\ proc.purple_depol_curve = View(DEPOL_START, DEPOL_END)
                /\ proc.purple_hyperpol_curve = View(HYPERPOL_START, HYPERPOL_END)
           ELSE /\ proc.depol_slice = NoSlice
                /\ proc.hyperpol_slice = NoSlice
                /\ proc.purple_depol_curve = NoView
                /\ proc.purple_hyperpol_curve = NoView
    /\ proc.purple_depol_curve.present = proc.depol_slice.present
    /\ proc.purple_hyperpol_curve.present = proc.hyperpol_slice.present

\* calculate_purple_curves ran on a processed trace of exactly 1227 samples
C6_Witness ==
    /\ lastOp = "calculate_purple_curves"
    /\ proc.processed_data.present
    /\ proc.processed_data.len = PURPLE_MIN_LEN
    /\ proc.blue_curve.present
    /\ ~proc.purple_hyperpol_curve.present
    /\ ~proc.hyperpol_slice.present

\* the handler went past the call of apply_average_to_peaks on a trace long
\* enough for the processor to derive both purple windows
AnalysisStoredSlices ==
    /\ lastOp = "on_action_potential_analysis"
    /\ app.reached \in {"update_plot raised", "purple curves missing"}
    /\ app.derived_hyperpol.present
    /\ app.derived_depol.present

-----------------------------------------------------------------------------
(* Claims about the integration-range controller *)

\* the controller's processor holds a purple curve of at least one sample
HasCurve(c) == ctl.processor.present /\ CurveData(ctl, c).present /\ CurveData(ctl, c).len >= 1

LastIndex(c) == CurveData(ctl, c).len - 1

ResolvedEnd(c) ==
    IF ctl.integration_points[c].end = LAST_POINT
    THEN LastIndex(c) ELSE ctl.integration_points[c].end

InRange(c) ==
    /\ 0 <= ctl.integration_points[c].start
    /\ ctl.integration_points[c].start <= ResolvedEnd(c)
    /\ ResolvedEnd(c) <= LastIndex(c)

PointCall == {"_update_integration_point", "_reset_integration_point"}

MarkerAgrees(c) ==
    ctl.markers[c].end.visible => ctl.markers[c].end.idx = LastIndex(c)

PatchAgrees(c) ==
    ctl.integration_patches[c].present => ctl.integration_patches[c].end = LastIndex(c)

EffectiveAgrees(c) ==
    lastOp = "get_effective_integration_indices"
        => /\ lastExc = ""
           /\ ctl.returned.present => ctl.returned.idx[c].end = LastIndex(c)

\* C9: an end index equal to the sentinel resolves to the last index of the purple
\* window, len(window) - 1, in the marker update, in the patch update and in
\* get_effective_integration_indices alike.
C9_SentinelIsLastIndex ==
    \A c \in CurveTypes :
        (HasCurve(c) /\ ctl.integration_points[c].end = LAST_POINT)
            => MarkerAgrees(c) /\ PatchAgrees(c) /\ EffectiveAgrees(c)

IntegralOf(c) ==
    IF c = "hyperpol" THEN tab.current_integrals.hyperpol_integral
    ELSE tab.current_integrals.depol_integral

\* C10: when the controller has reported its integration points, the integrals
\* the tab holds are taken over the reported start and end index of each curve.
C10_IntegralsFollowPoints ==
    (ctl.notified /\ \A c \in CurveTypes : HasCurve(c) /\ InRange(c))
    => /\ tab.current_integrals.present
       /\ \A c \in CurveTypes :
            ctl.integration_points[c].start < ResolvedEnd(c)
                => /\ IntegralOf(c).kind = "trapz"
                   /\ IntegralOf(c).start = ctl.integration_points[c].start
                   /\ IntegralOf(c).end \in {ResolvedEnd(c), ResolvedEnd(c) + 1}

-----------------------------------------------------------------------------
(* Claims about integration requests *)

\* a stored number that says the range held too few samples
InsufficientDataMarked(v) == v.kind = "insufficient data"

\* the slice a stored number was computed over holds fewer than two samples
DegenerateSlice(v) == v.kind # "initial" /\ v.end - v.start < 2

\* C11: an integration over a degenerate range (fewer than two samples, or
\* start = end) yields zero together with an explicit insufficient-data marker
\* and never NaN, for both polarities, in calculate_integrals and in
\* calculate_range_integral_with_custom_start.
C11_DegenerateRangeMarked ==
    /\ (lastOp = "calculate_integrals" /\ lastExc = "")
        => \A c \in {"hyperpol", "depol"} :
              DegenerateSlice(proc.integrals[c])
                => /\ InsufficientDataMarked(proc.integrals[c])
                   /\ proc.averages[c].kind # "nan"
    /\ (lastOp = "calculate_range_integral_with_custom_start"
            /\ tab.current_integrals.present)
        => /\ tab.current_integrals.hyperpol_integral.kind = "zero"
                => InsufficientDataMarked(tab.current_integrals.hyperpol_integral)
           /\ tab.current_integrals.depol_integral.kind = "zero"
                => InsufficientDataMarked(tab.current_integrals.depol_integral)

\* calculate_purple_curves found the processed trace too short and marked the
\* purple curves and slices unavailable
PurpleUnavailable ==
    /\ proc.processed_data.present
    /\ proc.processed_data.len <= PURPLE_MIN_LEN
    /\ ~proc.purple_hyperpol_curve.present /\ ~proc.purple_depol_curve.present
    /\ ~proc.hyperpol_slice.present /\ ~proc.depol_slice.present

PurpleRequests ==
    {"_is_in_purple_range", "_update_integration_points", "calculate_integrals"}

\* C12: on a trace too short for the purple windows, every integration or
\* range-selection request against the purple curves returns an
\* insufficient-data result and none raises an indexing or type error.
C12_ShortTraceRequestsSafe ==
    (PurpleUnavailable /\ lastOp \in PurpleRequests)
        => /\ lastExc = ""
           /\ lastOp = "calculate_integrals"
                => \A c \in {"hyperpol", "depol"} :
                        InsufficientDataMarked(proc.integrals[c])

-----------------------------------------------------------------------------
(* Claims about the stages and the parameters *)

\* find_peaks ran in find_cycles and returned no trough
NoTroughDetected(p) ==
    /\ p.data.present /\ p.data.len > 1
    /\ p.processed_data.present
    /\ t1_samples(p) >= 1
    /\ find_peaks(p.processed_data.troughs, t1_samples(p)) = <<>>

\* C13: when find_cycles detects no trough, the cycle list stays empty and
\* nothing raises; calculate_integral then returns 'No cycles found' with an
\* empty cycle_indices list.
C13_NoTroughNoCycles ==
    [][(lastOp' = "find_cycles" /\ NoTroughDetected(proc) /\ proc.cycles = <<>>)
        => /\ lastExc' = ""
           /\ proc'.cycles = <<>>
           /\ proc'.cycle_indices = <<>>
           /\ calculate_integral(proc') =
                [kind |-> "No cycles found", cycle_indices |-> <<>>]]_vars

C13_Witness ==
    /\ lastOp = "find_cycles" /\ lastExc = ""
    /\ proc.processed_data.present /\ proc.processed_data.troughs = {}
    /\ proc.data.len = 1000
    /\ proc.cycles = <<>>

\* C14: with an empty cycle list normalize_signal leaves processed_data, cycles
\* and cycle_indices (the whole instance) as they were and raises nothing.
C14_NormalizeNoCyclesNoOp ==
    [][(lastOp' = "normalize_signal" /\ proc.cycles = <<>>)
        => (lastExc' = "" /\ proc' = proc)]_vars

C14_Witness ==
    /\ lastOp = "normalize_signal" /\ lastExc = ""
    /\ proc.cycles = <<>>
    /\ proc.processed_data.present /\ proc.processed_data.stage = "corrected"

\* C15: when the cycle minimum equals the cycle baseline, normalize_signal
\* raises a numeric error, and processed_data never holds NaN or Inf.
C15_FlatCycleRaises ==
    /\ proc.processed_data.stage # "nonfinite"
    /\ (lastOp = "normalize_signal" /\ proc.processed_data.flat /\ proc.cycles # <<>>)
        => lastExc # ""

\* C16: analyze() with n_cycles < 1 or a non-positive time constant is rejected
\* with a parameter error before any stage runs; find_cycles selects no trough
\* with such parameters.
C16_BadParamsRejected ==
    (lastOp = "analyze" /\ (proc.params.n_cycles < 1 \/ proc.params.t1 <= 0))
        => (failStage = "parameters" /\ yielded = <<>>)

\* C17: an analyze() call runs with the parameters of that call and the
\* defaults for those it omits, whatever earlier calls were given.
C17_ParamsPerCall ==
    lastOp = "analyze" => proc.params = UpdateParams(DefaultParams, lastParams)

\* C18: no stage and no analyze() call changes the trace: data is what set_data
\* was given, and the caller's array is as it was supplied.
C18_TraceReadOnly ==
    /\ proc.data = proc.supplied
    /\ ~proc.supplied.written

C18_Witness ==
    /\ proc.data.present /\ proc.data.troughs # {}
    /\ proc.processed_data.stage = "normalized"
    /\ proc.blue_curve.present
    /\ lastOp = "analyze"

\* C19: a blue curve, whenever calculate_blue_curve produces one, has exactly
\* 800 samples, those of processed_data at indices 28..827.
C19_BlueCurveIs800 ==
    proc.blue_curve.present
        => /\ ViewLen(proc.blue_curve) = BLUE_END - BLUE_START
           /\ proc.blue_curve.lo = BLUE_START
           /\ proc.blue_curve.hi = BLUE_END

-----------------------------------------------------------------------------
(* The filtering applications *)

NextFilterApps ==
    \/ \E which \in {"main", "noise"} : LoadSignal(which)
    \/ \E use_savgol, use_fft, use_butterworth, use_extract_add \in BOOLEAN,
          failing \in FilterNames \cup {"none"} :
            OnFilterChange(use_savgol, use_fft, use_butterworth, use_extract_add, failing)
    \/ \E apply_savgol, apply_fft, apply_butter \in BOOLEAN,
          failing \in FilterNames \cup {"none"} :
            ApplyFilters(apply_savgol, apply_fft, apply_butter, failing)

SpecFilterApps == Init /\ [][NextFilterApps]_vars

-----------------------------------------------------------------------------
(* Claims about the filter chain *)

FilterOrder ==
    <<"extract_add_filter", "apply_savgol_filter", "apply_fft_filter",
      "butter_lowpass_filter">>

\* the stages the arguments of the last call enable
Enabled(name) ==
    \/ name = "extract_add_filter" /\ filt.use_extract_add
    \/ name = "apply_savgol_filter" /\ filt.savgol_params = "dict"
    \/ name = "apply_fft_filter" /\ filt.fft_threshold # "None"
    \/ name = "butter_lowpass_filter" /\ filt.butter_params = "dict"

\* C20: combined_filter applies the enabled stages in the order extract-add,
\* Savitzky-Golay, FFT, Butterworth, each on the output of the stage before it,
\* for every combination of enabled stages.
C20_StagesInFixedOrder ==
    (filt.called /\ filt.exc = "")
        => filt.output = filt.input \o SelectSeq(FilterOrder, Enabled)

C20_Witness ==
    /\ filt.called /\ filt.exc = "" /\ filt.passes = 2
    /\ filt.use_extract_add /\ filt.savgol_params = "dict"
    /\ filt.fft_threshold = "zero" /\ filt.butter_params = "dict"
    /\ Len(filt.output) = 6

-----------------------------------------------------------------------------
(* Claims about the filtering applications *)

\* the stage a key of the filter configuration stands for
StageOf(key) ==
    CASE key = "savgol_params" -> "apply_savgol_filter"
      [] key = "fft_params" -> "apply_fft_filter"
      [] key = "butter_params" -> "butter_lowpass_filter"
      [] key = "extract_add_params" -> "extract_add_filter"

StagesApplied(signal) == { signal[i] : i \in 1..Len(signal) }

\* C21: a stage of the filter chain runs exactly when its parameter block is
\* supplied; for the configuration FilterTab.get_active_filters builds and
\* on_filter_change passes to combined_filter, every stage with a block is
\* applied to the stored signal and no other stage is.
C21_StageRunsIffSupplied ==
    (lastOp = "on_filter_change" /\ fapps.main.data.present
        /\ ~fapps.main.stage_raised)
        => /\ fapps.main.error = ""
           /\ \A key \in {"savgol_params", "fft_params", "butter_params",
                          "extract_add_params"} :
                (key \in fapps.main.current_filters)
                    <=> (StageOf(key) \in StagesApplied(fapps.main.filtered_data.value))

\* C22: when a stage of the chain raises, the caller's stored filtered_data is
\* not the output of the stages that ran before it: on_filter_change keeps the
\* signal it held, apply_filters goes back to a copy of the loaded signal and
\* raises.
C22_FailedChainStoresNothing ==
    [][ /\ (lastOp' = "on_filter_change" /\ fapps'.main.stage_raised)
            => (fapps'.main.filtered_data = fapps.main.filtered_data
                /\ fapps'.main.error # "")
        /\ (lastOp' = "apply_filters" /\ fapps'.noise.stage_raised)
            => (fapps'.noise.filtered_data = fapps'.noise.data
                /\ lastExc' # "") ]_vars

C22_Witness ==
    /\ lastOp = "apply_filters"
    /\ fapps.noise.stage_raised
    /\ fapps.noise.filtered_data = Signal(<<>>)
    /\ fapps.main.stage_raised
    /\ fapps.main.filtered_data = Signal(<<"apply_savgol_filter">>)
    /\ fapps.main.current_filters = {"savgol_params", "butter_params"}

-----------------------------------------------------------------------------
(* Claims about the FFT filter *)

\* C23: apply_fft_filter always retains the zero-frequency bin: for every
\* threshold in [0, 1] and every input the DC component of the output is the
\* DC component of the input.
C23_DcBinRetained ==
    fftCall.called => fftCall.filtered[1] = fftCall.magnitudes[1]

-----------------------------------------------------------------------------
(* Claims about batch processing *)

FilesFound == 1..batch.files

Succeeded == { i \in FilesFound : batch.outcomes[i] = "ok" }

FolderReturned ==
    batch.pc = "done" /\ batch.returned.present /\ batch.returned.success

\* C24: after process_folder the results and the summary hold only successful
\* results, and the processed count that is returned does not include the
\* files that failed.
C24_OnlySuccessesCounted ==
    FolderReturned
        => /\ { batch.results[i] : i \in 1..Len(batch.results) } = Succeeded
           /\ batch.summary.files_processed = Cardinality(Succeeded)
           /\ batch.returned.results_count = Cardinality(Succeeded)
           /\ batch.returned.files_processed = Cardinality(Succeeded)

\* C25: whatever files fail to load or to process, process_folder attempts
\* every file found exactly once and then returns with the summary made.
C25_EveryFileAttempted ==
    /\ [](batch.pc = "done" /\ batch.files > 0
            => /\ \A i \in FilesFound : batch.attempts[i] = 1
               /\ batch.summary.kind # "empty"
               /\ batch.returned.present
               /\ ~batch.returned.raised => batch.returned.summary)
    /\ (batch.pc = "loop") ~> (batch.pc = "done")

C25_Witness ==
    /\ FolderReturned
    /\ batch.files = MaxFiles
    /\ batch.outcomes[1] = "process_raised"
    /\ batch.outcomes[2] = "load_raised"
    /\ batch.outcomes[3] = "ok"
    /\ batch.results = <<3>>

-----------------------------------------------------------------------------
(* Claims about ContinuousLearning *)

LoopsRunning == { t \in Threads : learn.threads[t] \in {"test", "check", "sleep"} }

\* C26: for any interleaving of start_monitoring and stop_monitoring at most
\* one monitoring loop is running, and no _check_all_models run begins between
\* the return of stop_monitoring and the next start_monitoring.
C26_OneMonitoringLoop ==
    /\ Cardinality(LoopsRunning) <= 1
    /\ ~learn.check_after_stop


\* C27: the IDs of the predictions held in a model's history window are
\* pairwise different, also with the window full and the clock standing still,
\* and update_actual_result with an ID changes the prediction that ID was
\* returned for.
C27_PredictionIdsUnique ==
    /\ \A i, j \in 1..Len(learn.prediction_history) :
            i # j => learn.prediction_history[i].id # learn.prediction_history[j].id
    /\ learn.asked = learn.updated

-----------------------------------------------------------------------------
(* Claims about the controller with custom points disabled *)

\* C28: whenever custom integration points are disabled in the controller of
\* purple_integration_control.py, the four stored points are at their defaults
\* (start 0, end -1) and no integration patch is held.
C28_DisabledMeansDefaults ==
    ~ctl.custom_points_enabled
        => \A c \in CurveTypes :
                /\ ctl.integration_points[c] = [start |-> 0, end |-> LAST_POINT]
                /\ ~ctl.integration_patches[c].present

-----------------------------------------------------------------------------
(* Claims about selecting by dragging *)

SlicesSet == proc.hyperpol_slice.present /\ proc.depol_slice.present

\* the polarity whose window holds the whole selection, "" when none does
WindowOf(d) ==
    IF proc.depol_slice.start <= d.start /\ d.end < proc.depol_slice.end
    THEN "depol"
    ELSE IF proc.hyperpol_slice.start <= d.start /\ d.end <= proc.hyperpol_slice.end
    THEN "hyperpol"
    ELSE ""

\* C29: while the drag-selection controller is active and the purple slices are
\* set, a press anywhere between the start of the depol window and the end of
\* the hyperpol window begins a selection, and a release sets the integration
\* start of the polarity whose window contains the selection.
C29_PressInSpanSelects ==
    (sel.is_active /\ SlicesSet)
        => /\ (lastOp = "_on_press"
                /\ proc.depol_slice.start <= sel.pressed.v
                /\ sel.pressed.v <= proc.hyperpol_slice.end)
                    => sel.start_point = sel.pressed
           /\ (lastOp = "_on_release" /\ sel.dragged.present
                /\ WindowOf(sel.dragged) # "")
                    => sel.integration_points[WindowOf(sel.dragged)]
                            = PointAt(sel.dragged.start, FALSE)

-----------------------------------------------------------------------------
(* Claims about the extract-add filter *)

\* C30: extract_add_filter applies the mean-centering term only to event
\* samples and returns no undefined sample; with no event found the output is
\* the smoothed input with no offset.
C30_OffsetOnlyOnEvents ==
    (eaCall.called /\ eaCall.exc = "")
        => \A i \in 1..eaCall.n :
                /\ ~eaCall.value[i].nan
                /\ eaCall.value[i].mean_subtracted => i \in eaCall.event_mask

====
